---- MODULE Spec2Model ----
(***************************************************************************)
(* Live voice session of src/welness_agent_live.py: the coroutine          *)
(* WellnessAgentLive.start_voice_session_with_live_agents, its three       *)
(* asyncio tasks (audio_input_loop, audio_output_loop,                     *)
(* context_injection_loop), the worker threads that asyncio.to_thread      *)
(* runs AudioHandler.read_input / write_output on, and the model channel.  *)
(* One step of a task is the code between two suspension points (await).   *)
(*                                                                         *)
(* TranscriptBuffer and LiveAgentCoordinator.start / stop of               *)
(* src/live_transcript_handler.py are specified further down, each with    *)
(* the tasks that call it (BufSpec, CoordSpec), and so are the agents of   *)
(* src/agents.py (AgentSpec), LiveAgentCoordinator.add_transcript with     *)
(* the analysis cycles of _analyze_now and stop() (CycleSpec),             *)
(* _build_analysis_result on its own (ResultSpec), and MobileAudioSession  *)
(* of src/mobile_audio_handler.py with its websocket handler (MobileSpec). *)
(***************************************************************************)
EXTENDS Integers, Sequences, FiniteSets, TLC

VARIABLES
    \* SessionState (welness_agent_live.py:119-128)
    is_ai_speaking, should_end_session, end_session_requested,
    last_context_update,
    \* AudioHandler (welness_agent_live.py:78-116)
    input_stream, output_stream, pa_terminated,
    \* worker threads of asyncio.to_thread
    in_thread, out_thread,
    \* positions of the coroutine and of its three tasks
    main_pc, input_pc, output_pc, context_pc,
    \* locals: audio_data of audio_input_loop, the function_call part of the
    \* response being handled, whether it has text parts
    \* (current_text_parts) and whether `response` is bound, in
    \* audio_output_loop; the exception start_voice_session... is leaving with
    audio_data, cur_fc, cur_text, response_bound, exit_exc,
    \* the model channel (session) and the remote model
    channel, turn_open, events_left,
    \* LiveAgentCoordinator: _running and the number of the published analysis
    \* (0: last_analysis is None, get_context_for_agent() returns "")
    coord_running, coord_context,
    \* observations: the reasons on_session_end was called with, in order; what
    \* audio_input_loop did with its last chunk; whether a device read or
    \* write ran on a stream that close() had already closed; the contexts
    \* context_injection_loop has passed to session.send_client_content, in
    \* order
    callbacks, last_chunk, late_io, injected,
    \* TranscriptBuffer (live_transcript_handler.py:41-67): the deque
    \* `segments`, and the number of segments appended so far
    segments, buf_adds,
    \* TranscriptBuffer._lock and the tasks calling the buffer: the operation
    \* a task is inside of, its argument, and what its last call returned;
    \* the contents the buffer has had after each complete append
    buf_lock, buf_pc, buf_arg, buf_result, buf_history,
    \* LiveAgentCoordinator.start / stop (live_transcript_handler.py:100-146):
    \* the periodic-analysis tasks created so far, _analysis_task, and the
    \* task a call of stop() is awaiting (0: none)
    p_pc, analysis_task, stop_awaits,
    \* the agents of src/agents.py: the last call of HealthAgent and of
    \* SentimentAgent with what it returned; SocialAgent.__call__: its
    \* position, its local `iteration`, the calls of generate_content made,
    \* its local `response` and the social_suggestion returned
    health_call, sentiment_call,
    social_pc, iteration, model_calls, response, social_out,
    \* LiveAgentCoordinator._analyze_now (live_transcript_handler.py:148-232):
    \* the position of each analysis cycle, the number of segments that had
    \* been added when it read the transcript, the mood_score its sentiment
    \* analysis returned; last_analysis, analysis_count, mood_history; the
    \* number of calls of on_analysis_complete and the result passed to the
    \* last one
    cyc_pc, cyc_read, cyc_mood,
    last_analysis, analysis_count, mood_history, notified,
    \* the cycle _periodic_analysis_loop awaits at line 144 (0: none), and
    \* whether stop() has returned, with the cycles that add_transcript had
    \* created and that had not finished then
    periodic_cycle, stop_call,
    \* MobileAudioSession (mobile_audio_handler.py:30-32): is_active,
    \* should_end, end_session_requested; the positions of the websocket
    \* handler (api.py:534-592), of _receive_from_gemini and of
    \* _context_injection_loop, and of each task inside end_session
    mob_is_active, mob_should_end, mob_end_requested,
    handler_pc, recv_pc, ctx_pc, es_pc,
    \* the reasons of the "session_ended" messages sent to the client, the
    \* reasons end_session was called with, the calls of
    \* live_coordinator.stop(), the audio chunks sent on to the model and
    \* dropped, the client messages and model responses still to come, and
    \* the state of gemini_session
    client_ended, end_calls, coordinator_stops, audio_sent, audio_dropped,
    messages_left, responses_left, gemini_session

stateVars == << is_ai_speaking, should_end_session, end_session_requested,
                last_context_update >>
audioVars == << input_stream, output_stream, pa_terminated >>
threadVars == << in_thread, out_thread >>
envVars == << channel, turn_open, events_left >>
coordVars == << coord_running, coord_context >>
bufferVars == << segments, buf_adds >>
bufTaskVars == << buf_lock, buf_pc, buf_arg, buf_result, buf_history >>
periodicVars == << p_pc, analysis_task, stop_awaits >>
agentVars == << health_call, sentiment_call, social_pc, iteration,
               model_calls, response, social_out >>
cycleVars == << cyc_pc, cyc_read, cyc_mood, last_analysis, analysis_count,
               mood_history, notified, periodic_cycle, stop_call >>
mobileVars == << mob_is_active, mob_should_end, mob_end_requested,
                handler_pc, recv_pc, ctx_pc, es_pc, client_ended, end_calls,
                coordinator_stops, audio_sent, audio_dropped, messages_left,
                responses_left, gemini_session >>
\* the variables of the agents, of the analysis cycles and of the mobile
\* session
analysisVars == << agentVars, cycleVars, mobileVars >>
\* the variables of the callers of TranscriptBuffer and of start() / stop(),
\* of the agents and of the analysis cycles
componentVars == << bufTaskVars, periodicVars, analysisVars >>

\* the variables of the voice session
sessionVars == << stateVars, audioVars, threadVars, main_pc, input_pc,
                  output_pc, context_pc, audio_data, cur_fc, cur_text,
                  response_bound, exit_exc, envVars, callbacks, last_chunk,
                  late_io, injected >>

vars == << sessionVars, coordVars, bufferVars, componentVars >>

\* Channel events the remote model may still produce (model turns, tool
\* calls, malformed responses), and analyses the coordinator may publish.
MaxEvents == 2
MaxAnalyses == 1

\* TranscriptBuffer(max_segments, analysis_window), whose defaults are 20 and
\* 5; the segments the callers add; the largest num_segments they pass
MaxSegments == 3
AnalysisWindow == 2
MaxAdds == 4
MaxN == 3

\* calls of LiveAgentCoordinator.start() on one coordinator
MaxStarts == 3

Reasons == {"ai_initiated", "connection_closed", "manual_completion", "user_interrupted"}

\* Positions of start_voice_session_with_live_agents inside _run()
RunPcs == {"connect", "start_tasks", "launch", "monitor", "waiting",
           "wait_output", "cancel_input", "await_input",
           "cancel_context", "await_context", "stop_coord", "final_cb",
           "exit_session"}
\* ... and after it has left
Exited == {"returned", "raised"}

\* A task is done (asyncio.Task.done()): "done" it returned from its loop,
\* "dead" it returned because its except clause swallowed an exception,
\* "failed" it ended with an exception (task.exception() is set),
\* "cancelled" it ended with CancelledError.
Finished == {"done", "dead", "failed", "cancelled"}

\* The tasks that call one TranscriptBuffer, and the speakers of a segment
\* (TranscriptSegment.speaker: "user" or "agent")
Writers == {"writer"}
Readers == {"reader1", "reader2"}
BufTasks == Writers \cup Readers
Speakers == {"user", "agent"}

\* TranscriptSegment.text of the k-th segment added
Words == << "one", "two", "three", "four", "five", "six" >>

\* what a task's last call of the buffer returned: nothing yet
NoResult == [op |-> "none", arg |-> 0, value |-> << >>]

\* the periodic-analysis tasks start() can create
PeriodicTasks == 1..MaxStarts

\* calls of LiveAgentCoordinator.add_transcript and analysis cycles (calls
\* of _analyze_now), together, on one coordinator
MaxCalls == 4

\* entries of mood_history when _build_analysis_result is called on its own
MaxHistory == 4

\* messages the client sends on the websocket of a mobile session, and
\* responses the model sends in it
MaxMessages == 3
MaxResponses == 3
Cycles == 1..MaxCalls

\* max_iterations of SocialAgent.__call__
max_iterations == 5

\* self.mood_history = deque(maxlen=10), live_transcript_handler.py:90
MoodHistoryLen == 10

\* A value of the JSON the sentiment model returns, or of a Python variable
\* holding it: an int, a float (val is the number in tenths), a string, and
\* Absent for a key the object does not have
IntValue(n) == [type |-> "int", val |-> n]
FloatValue(tenths) == [type |-> "float", val |-> tenths]
StrValue == [type |-> "str", val |-> 0]
Absent == [type |-> "absent", val |-> 0]

\* HealthAgent and SentimentAgent have not been called
NoHealthCall ==
    [called |-> FALSE, steps |-> 0, sleep |-> 0, score |-> 0,
     suggestion |-> "none"]
NoReply == [kind |-> "none", json |-> "none", score |-> Absent]
NoSentiment ==
    [raised |-> FALSE, mood_score |-> Absent, mood_analysis |-> "none"]
NoSentimentCall ==
    [called |-> FALSE, client |-> FALSE, reply |-> NoReply,
     result |-> NoSentiment]

\* `response` of SocialAgent.__call__ before the first generate_content
NoResponse == [function_call |-> "none", text |-> FALSE]

\* self.last_analysis = None (live_transcript_handler.py:89)
NoAnalysis ==
    [mood_score |-> Absent, mood_trend |-> "none", urgency_level |-> "none",
     recommended_topics |-> << >>, read |-> 0]

Init ==
    /\ is_ai_speaking = FALSE
    /\ should_end_session = FALSE
    /\ end_session_requested = FALSE
    /\ last_context_update = 0
    /\ input_stream = "none"
    /\ output_stream = "none"
    /\ pa_terminated = FALSE
    /\ in_thread = "idle"
    /\ out_thread = "idle"
    /\ main_pc = "connect"
    /\ input_pc = "idle"
    /\ output_pc = "idle"
    /\ context_pc = "idle"
    /\ audio_data = "none"
    /\ cur_fc = FALSE
    /\ response_bound = FALSE
    /\ exit_exc = "none"
    /\ channel = "none"
    /\ turn_open = FALSE
    /\ events_left = MaxEvents
    /\ coord_running = FALSE
    /\ coord_context = 0
    /\ callbacks = << >>
    /\ last_chunk = "none"
    /\ late_io = FALSE
    /\ cur_text = FALSE
    /\ injected = << >>
    /\ segments = << >>
    /\ buf_adds = 0
    /\ buf_lock = FALSE
    /\ buf_pc = [t \in BufTasks |-> "idle"]
    /\ buf_arg = [t \in BufTasks |-> IF t \in Writers THEN "none" ELSE 0]
    /\ buf_result = [t \in BufTasks |-> NoResult]
    /\ buf_history = { << >> }
    /\ p_pc = [t \in PeriodicTasks |-> "none"]
    /\ analysis_task = 0
    /\ stop_awaits = 0
    /\ health_call = NoHealthCall
    /\ sentiment_call = NoSentimentCall
    /\ social_pc = "idle"
    /\ iteration = 0
    /\ model_calls = 0
    /\ response = NoResponse
    /\ social_out = "none"
    /\ cyc_pc = [c \in Cycles |-> "none"]
    /\ cyc_read = [c \in Cycles |-> 0]
    /\ cyc_mood = [c \in Cycles |-> Absent]
    /\ last_analysis = NoAnalysis
    /\ analysis_count = 0
    /\ mood_history = << >>
    /\ notified = [count |-> 0, last |-> NoAnalysis]
    /\ periodic_cycle = 0
    /\ stop_call = [returned |-> FALSE, in_flight |-> {}]
    /\ mob_is_active = TRUE
    /\ mob_should_end = FALSE
    /\ mob_end_requested = FALSE
    /\ handler_pc = "loop"
    /\ recv_pc = "recv"
    /\ ctx_pc = "sleep"
    /\ es_pc = [c \in {"handler", "receive"} |-> "none"]
    /\ client_ended = << >>
    /\ end_calls = {}
    /\ coordinator_stops = 0
    /\ audio_sent = 0
    /\ audio_dropped = 0
    /\ messages_left = MaxMessages
    /\ responses_left = MaxResponses
    /\ gemini_session = "open"


(***************************************************************************)
(* AudioHandler                                                            *)
(***************************************************************************)

\* AudioHandler.close() on one stream: `if self.input_stream:` stop_stream()
\* and close(); a stream that was never opened is left alone.
CloseStream(stream) == IF stream = "open" THEN "closed" ELSE stream

\* AudioHandler.close(): both streams, then self.p.terminate()
AudioClose ==
    /\ input_stream' = CloseStream(input_stream)
    /\ output_stream' = CloseStream(output_stream)
    /\ pa_terminated' = TRUE

\* RunsClose with close() after the try statement instead of in its finally
\* clause: C9 must fail with it.
RunsCloseOnSuccessOnly(exc) == exc = "none"

\* try: await _run() ... finally: audio_handler.close(): close() runs
\* whatever exception (exc) start_voice_session_with_live_agents leaves with.
RunsClose(exc) == TRUE

(***************************************************************************)
(* TranscriptBuffer.add_segment and LiveAgentCoordinator.add_transcript    *)
(* (src/live_transcript_handler.py)                                        *)
(***************************************************************************)

\* append() on a plain list, which never evicts: C14 must fail with it.
ListAppend(q, x, maxlen) == Append(q, x)

\* deque(maxlen=max_segments).append(x), lines 45 and 52: a full deque drops
\* its leftmost item
DequeAppend(q, x, maxlen) ==
    IF Len(q) < maxlen THEN Append(q, x) ELSE Append(Tail(q), x)

\* TranscriptSegment(speaker=speaker, text=text), lines 122-126
NewSegment(speaker) == [speaker |-> speaker, text |-> Words[buf_adds + 1]]

\* add_segment, lines 49-52
AppendSegment(segment) ==
    /\ segments' = DequeAppend(segments, segment, MaxSegments)
    /\ buf_adds' = buf_adds + 1

\* add_segment of the segment add_transcript makes of a speaker's k-th text
AddSegment(speaker) == AppendSegment(NewSegment(speaker))

(***************************************************************************)
(* WellnessAgentLive.start_voice_session_with_live_agents                  *)
(***************************************************************************)

\* The call of on_session_end / state.session_ended_callback with a reason
Notify(reason) == callbacks' = Append(callbacks, reason)

\* Leaving `async with self.client.aio.live.connect(...) as session` closes
\* the channel from this side, unless it is closed already.
LeaveSession == channel' = IF channel = "open" THEN "closed_ok" ELSE channel

\* lines 345-353: connect, open both audio streams, SessionState(), start
\* the live coordinator
Connect ==
    /\ main_pc = "connect"
    /\ channel' = "open"
    /\ input_stream' = "open"
    /\ output_stream' = "open"
    /\ coord_running' = TRUE
    /\ main_pc' = "start_tasks"
    /\ UNCHANGED << stateVars, pa_terminated, threadVars, input_pc, output_pc,
                    context_pc, audio_data, cur_fc, cur_text, response_bound,
                    exit_exc, turn_open, events_left, coord_context,
                    callbacks, last_chunk, late_io, injected,
                    bufferVars, componentVars >>

\* line 345: the connection cannot be opened; the exception leaves _run()
ConnectFails ==
    /\ main_pc = "connect"
    /\ exit_exc' = "error"
    /\ main_pc' = "finally"
    /\ UNCHANGED << stateVars, audioVars, threadVars, input_pc, output_pc,
                    context_pc, audio_data, cur_fc, cur_text, response_bound,
                    envVars, coordVars, callbacks, last_chunk, late_io,
                    injected, bufferVars, componentVars >>

\* lines 346-347: the input stream opens, start_output_stream() raises (no
\* output device); the exception leaves the async with and _run()
OpenOutputFails ==
    /\ main_pc = "connect"
    /\ input_stream' = "open"
    /\ channel' = "closed_ok"
    /\ exit_exc' = "error"
    /\ main_pc' = "finally"
    /\ UNCHANGED << stateVars, output_stream, pa_terminated, threadVars,
                    input_pc, output_pc, context_pc, audio_data, cur_fc,
                    cur_text, response_bound, turn_open, events_left,
                    coordVars, callbacks, last_chunk, late_io, injected, bufferVars, componentVars >>

\* lines 324-330 and 359-370: context_text is the message of initial_history
\* that holds 'FINAL CONTEXT FOR WELLNESS AGENT'; when there is one it is
\* sent with session.send_client_content(..., turn_complete=True), which
\* raises on a closed channel: the exception leaves _run()
SendInitialContext ==
    /\ main_pc = "start_tasks"
    /\ IF channel = "open"
       THEN /\ main_pc' = "launch"
            /\ UNCHANGED << channel, exit_exc >>
       ELSE /\ LeaveSession
            /\ exit_exc' = "error"
            /\ main_pc' = "finally"
    /\ UNCHANGED << stateVars, audioVars, threadVars, input_pc, output_pc,
                    context_pc, audio_data, cur_fc, cur_text, response_bound,
                    turn_open, events_left, coordVars, callbacks, last_chunk,
                    late_io, injected, bufferVars, componentVars >>

\* lines 377-381: asyncio.create_task for the three loops, after the initial
\* context has been sent ("launch") or, `if context_text:` being false for
\* an initial_history that is None or holds no such message, at once
StartTasks ==
    /\ main_pc \in {"start_tasks", "launch"}
    /\ input_pc' = "loop"
    /\ output_pc' = "recv"
    /\ context_pc' = "loop"
    /\ main_pc' = "monitor"
    /\ UNCHANGED << stateVars, audioVars, threadVars, audio_data, cur_fc,
                    cur_text, response_bound, exit_exc, envVars, coordVars,
                    callbacks, last_chunk, late_io, injected,
                    bufferVars, componentVars >>

\* line 387: while not state.should_end_session
MonitorCheck ==
    /\ main_pc = "monitor"
    /\ main_pc' = IF should_end_session THEN "wait_output" ELSE "waiting"
    /\ UNCHANGED << stateVars, audioVars, threadVars, input_pc, output_pc,
                    context_pc, audio_data, cur_fc, cur_text, response_bound,
                    exit_exc, envVars, coordVars, callbacks, last_chunk,
                    late_io, injected, bufferVars, componentVars >>

\* task.exception() of a task in `done` (line 395)
TaskException(pc) == pc = "failed"

\* lines 388-398: asyncio.wait(..., timeout=0.1) returns; a done task with
\* an exception sets should_end_session
MonitorWake ==
    /\ main_pc = "waiting"
    /\ should_end_session' =
          IF \E pc \in {input_pc, output_pc, context_pc} : TaskException(pc)
          THEN TRUE ELSE should_end_session
    /\ main_pc' = "monitor"
    /\ UNCHANGED << is_ai_speaking, end_session_requested,
                    last_context_update, audioVars, threadVars, input_pc,
                    output_pc, context_pc, audio_data, cur_fc, cur_text,
                    response_bound, exit_exc, envVars, coordVars, callbacks,
                    last_chunk, late_io, injected, bufferVars,
                    componentVars >>

\* Task.cancel(): CancelledError is thrown into the task at the await it is
\* suspended in, when the task runs next. In audio_output_loop the await of
\* the callback inside `except ConnectionClosedError` is outside the try
\* that catches CancelledError.
Cancel(pc) == IF pc = "closed_cb" THEN "cancelling_cb" ELSE "cancelling"

\* WaitOutput without the wait: the teardown goes on to cancel the other
\* tasks while the output task is still running (C11 must fail with it).
WaitForSkipped(pc) == TRUE

\* line 405: await asyncio.wait_for(output_task, timeout=5.0) returns when
\* the task is done (also when the timeout cancelled it, or when it ended
\* with an exception, which line 411 swallows)
WaitForReturns(pc) == pc \in Finished

WaitOutput ==
    /\ main_pc = "wait_output"
    /\ WaitForReturns(output_pc)
    /\ main_pc' = "cancel_input"
    /\ UNCHANGED << stateVars, audioVars, threadVars, input_pc, output_pc,
                    context_pc, audio_data, cur_fc, cur_text, response_bound,
                    exit_exc, envVars, coordVars, callbacks, last_chunk,
                    late_io, injected, bufferVars, componentVars >>

\* lines 405-410: the 5 s pass first; wait_for cancels the output task and
\* waits for it to end
WaitOutputTimeout ==
    /\ main_pc = "wait_output"
    /\ output_pc \notin Finished \cup {"cancelling", "cancelling_cb"}
    /\ output_pc' = Cancel(output_pc)
    /\ UNCHANGED << stateVars, audioVars, threadVars, main_pc, input_pc,
                    context_pc, audio_data, cur_fc, cur_text, response_bound,
                    exit_exc, envVars, coordVars, callbacks, last_chunk,
                    late_io, injected, bufferVars, componentVars >>

\* lines 418-420 for input_task: cancel it if it is not done
CancelInput ==
    /\ main_pc = "cancel_input"
    /\ IF input_pc \in Finished
       THEN /\ main_pc' = "cancel_context"
            /\ UNCHANGED input_pc
       ELSE /\ input_pc' = Cancel(input_pc)
            /\ main_pc' = "await_input"
    /\ UNCHANGED << stateVars, audioVars, threadVars, output_pc, context_pc,
                    audio_data, cur_fc, cur_text, response_bound, exit_exc,
                    envVars, coordVars, callbacks, last_chunk, late_io,
                    injected, bufferVars, componentVars >>

\* lines 421-424: await task returns
AwaitInput ==
    /\ main_pc = "await_input"
    /\ input_pc \in Finished
    /\ main_pc' = "cancel_context"
    /\ UNCHANGED << stateVars, audioVars, threadVars, input_pc, output_pc,
                    context_pc, audio_data, cur_fc, cur_text, response_bound,
                    exit_exc, envVars, coordVars, callbacks, last_chunk,
                    late_io, injected, bufferVars, componentVars >>

\* lines 418-420 for context_task
CancelContext ==
    /\ main_pc = "cancel_context"
    /\ IF context_pc \in Finished
       THEN /\ main_pc' = "stop_coord"
            /\ UNCHANGED context_pc
       ELSE /\ context_pc' = Cancel(context_pc)
            /\ main_pc' = "await_context"
    /\ UNCHANGED << stateVars, audioVars, threadVars, input_pc, output_pc,
                    audio_data, cur_fc, cur_text, response_bound, exit_exc,
                    envVars, coordVars, callbacks, last_chunk, late_io,
                    injected, bufferVars, componentVars >>

AwaitContext ==
    /\ main_pc = "await_context"
    /\ context_pc \in Finished
    /\ main_pc' = "stop_coord"
    /\ UNCHANGED << stateVars, audioVars, threadVars, input_pc, output_pc,
                    context_pc, audio_data, cur_fc, cur_text, response_bound,
                    exit_exc, envVars, coordVars, callbacks, last_chunk,
                    late_io, injected, bufferVars, componentVars >>

\* line 428: await live_coordinator.stop()
StopCoordinator ==
    /\ main_pc = "stop_coord"
    /\ coord_running' = FALSE
    /\ main_pc' = "final_cb"
    /\ UNCHANGED << stateVars, audioVars, threadVars, input_pc, output_pc,
                    context_pc, audio_data, cur_fc, cur_text, response_bound,
                    exit_exc, envVars, coord_context, callbacks, last_chunk,
                    late_io, injected, bufferVars, componentVars >>

\* lines 432-433: if not state.should_end_session and on_session_end
FinalCallback ==
    /\ main_pc = "final_cb"
    /\ IF ~should_end_session
       THEN Notify("manual_completion")
       ELSE UNCHANGED callbacks
    /\ main_pc' = "exit_session"
    /\ UNCHANGED << stateVars, audioVars, threadVars, input_pc, output_pc,
                    context_pc, audio_data, cur_fc, cur_text, response_bound,
                    exit_exc, envVars, coordVars, last_chunk, late_io,
                    injected, bufferVars, componentVars >>

\* the end of the async with block (line 345) and of _run()
ExitSession ==
    /\ main_pc = "exit_session"
    /\ LeaveSession
    /\ main_pc' = "finally"
    /\ UNCHANGED << stateVars, audioVars, threadVars, input_pc, output_pc,
                    context_pc, audio_data, cur_fc, cur_text, response_bound,
                    exit_exc, turn_open, events_left, coordVars, callbacks,
                    last_chunk, late_io, injected, bufferVars,
                    componentVars >>

\* KeyboardInterrupt raised in the coroutine while it is inside _run(): it
\* leaves the async with (when inside it) and reaches line 437
KeyboardInterrupt ==
    /\ main_pc \in RunPcs
    /\ LeaveSession
    /\ main_pc' = "ki_handler"
    /\ UNCHANGED << stateVars, audioVars, threadVars, input_pc, output_pc,
                    context_pc, audio_data, cur_fc, cur_text, response_bound,
                    exit_exc, turn_open, events_left, coordVars, callbacks,
                    last_chunk, late_io, injected, bufferVars,
                    componentVars >>

\* lines 437-440: except KeyboardInterrupt: on_session_end("user_interrupted")
KiHandler ==
    /\ main_pc = "ki_handler"
    /\ Notify("user_interrupted")
    /\ main_pc' = "ki_cb"
    /\ UNCHANGED << stateVars, audioVars, threadVars, input_pc, output_pc,
                    context_pc, audio_data, cur_fc, cur_text, response_bound,
                    exit_exc, envVars, coordVars, last_chunk, late_io,
                    injected, bufferVars, componentVars >>

\* line 440: the callback returns, or raises
KiCallbackDone ==
    /\ main_pc = "ki_cb"
    /\ \E e \in {"none", "error"} : exit_exc' = e
    /\ main_pc' = "finally"
    /\ UNCHANGED << stateVars, audioVars, threadVars, input_pc, output_pc,
                    context_pc, audio_data, cur_fc, cur_text, response_bound,
                    envVars, coordVars, callbacks, last_chunk, late_io,
                    injected, bufferVars, componentVars >>

\* lines 441-442: finally: audio_handler.close(); then the function returns,
\* or the pending exception goes on to the caller
Finally ==
    /\ main_pc = "finally"
    /\ IF RunsClose(exit_exc) THEN AudioClose ELSE UNCHANGED audioVars
    /\ main_pc' = IF exit_exc = "error" THEN "raised" ELSE "returned"
    /\ UNCHANGED << stateVars, threadVars, input_pc, output_pc, context_pc,
                    audio_data, cur_fc, cur_text, response_bound, exit_exc,
                    envVars, coordVars, callbacks, last_chunk, late_io,
                    injected, bufferVars, componentVars >>

MainStep ==
    \/ Connect \/ SendInitialContext \/ StartTasks \/ MonitorCheck \/ MonitorWake \/ WaitOutput
    \/ CancelInput \/ AwaitInput \/ CancelContext \/ AwaitContext
    \/ StopCoordinator \/ FinalCallback \/ ExitSession \/ KiHandler
    \/ KiCallbackDone \/ Finally


(***************************************************************************)
(* audio_input_loop (lines 131-148) and the thread of read_input           *)
(***************************************************************************)

\* MicGate without the test of is_ai_speaking (C3 must fail with it), and
\* without the test of end_session_requested (C4 must fail with it).
MicGateNoEcho(data, speaking, end_requested) ==
    data = "data" /\ ~end_requested

MicGateNoEnd(data, speaking, end_requested) ==
    data = "data" /\ ~speaking

\* line 137: if audio_data and not state.is_ai_speaking
\*                         and not state.end_session_requested
MicGate(data, speaking, end_requested) ==
    data = "data" /\ ~speaking /\ ~end_requested

\* What kept a chunk from the channel at line 137: no data, the model
\* speaking (echo), or else the pending end request
DropReason(data, speaking) ==
    IF data # "data" THEN "empty"
    ELSE IF speaking THEN "muted_echo" ELSE "muted_end"

\* lines 135-136: while not state.should_end_session:
\*                    audio_data = await asyncio.to_thread(read_input)
InputLoopTop ==
    /\ input_pc = "loop"
    /\ IF should_end_session
       THEN /\ input_pc' = "done"
            /\ UNCHANGED in_thread
       ELSE /\ input_pc' = "read"
            /\ in_thread' = "queued"
    /\ UNCHANGED << stateVars, audioVars, out_thread, main_pc, output_pc,
                    context_pc, audio_data, cur_fc, cur_text, response_bound,
                    exit_exc, envVars, coordVars, callbacks, last_chunk,
                    late_io, injected, bufferVars, componentVars >>

\* AudioHandler.read_input, line 101, on the worker thread:
\* `self.input_stream and self.input_stream.is_active()`; on a closed stream
\* is_active() raises, and the exception ends the loop (lines 147-148)
ReadInputStart ==
    /\ in_thread = "queued"
    /\ IF input_stream = "open"
       THEN /\ in_thread' = "busy"
            /\ UNCHANGED input_pc
       ELSE /\ in_thread' = "idle"
            /\ input_pc' = IF input_pc = "read" THEN "dead" ELSE input_pc
    /\ UNCHANGED << stateVars, audioVars, out_thread, main_pc, output_pc,
                    context_pc, audio_data, cur_fc, cur_text, response_bound,
                    exit_exc, envVars, coordVars, callbacks, last_chunk,
                    late_io, injected, bufferVars, componentVars >>

\* AudioHandler.read_input, line 102: the blocking device read returns; its
\* result reaches the loop unless the task was cancelled meanwhile. The
\* chunk is bytes, or falsy.
ReadInputDone ==
    /\ in_thread = "busy"
    /\ in_thread' = "idle"
    /\ late_io' = (late_io \/ input_stream = "closed")
    /\ IF input_pc = "read"
       THEN /\ input_pc' = "check"
            /\ \E d \in {"data", "none"} : audio_data' = d
       ELSE UNCHANGED << input_pc, audio_data >>
    /\ UNCHANGED << stateVars, audioVars, out_thread, main_pc, output_pc,
                    context_pc, cur_fc, cur_text, response_bound, exit_exc,
                    envVars, coordVars, callbacks, last_chunk, injected, bufferVars, componentVars >>

\* lines 137-144: the gate and session.send_realtime_input, which raises on
\* a closed channel (caught at line 147: the loop ends); then sleep(0)
InputCheck ==
    /\ input_pc = "check"
    /\ IF MicGate(audio_data, is_ai_speaking, end_session_requested)
       THEN IF channel = "open"
            THEN /\ last_chunk' = "forwarded"
                 /\ input_pc' = "loop"
            ELSE /\ last_chunk' = "failed"
                 /\ input_pc' = "dead"
       ELSE /\ last_chunk' = DropReason(audio_data, is_ai_speaking)
            /\ input_pc' = "loop"
    /\ UNCHANGED << stateVars, audioVars, threadVars, main_pc, output_pc,
                    context_pc, audio_data, cur_fc, cur_text, response_bound,
                    exit_exc, envVars, coordVars, callbacks, late_io,
                    injected, bufferVars, componentVars >>

\* lines 145-146: except asyncio.CancelledError: pass
InputCancelled ==
    /\ input_pc = "cancelling"
    /\ input_pc' = "done"
    /\ UNCHANGED << stateVars, audioVars, threadVars, main_pc, output_pc,
                    context_pc, audio_data, cur_fc, cur_text, response_bound,
                    exit_exc, envVars, coordVars, callbacks, last_chunk,
                    late_io, injected, bufferVars, componentVars >>

InputStep == InputLoopTop \/ InputCheck \/ InputCancelled

(***************************************************************************)
(* audio_output_loop (lines 151-245) and the thread of write_output        *)
(***************************************************************************)

\* lines 184-187: if current_text_parts: ... await
\* state.live_coordinator.add_transcript("agent", state.last_agent_text)
LogAgentText(text) ==
    IF text THEN AddSegment("agent") ELSE UNCHANGED bufferVars

\* `end_session_requested = (name == 'end_session_tool')` in the place of
\* lines 177-178: C35 must fail with it.
AssignEnd(requested, fc) == fc

\* lines 175-181: end_session_requested = True if the part is a function
\* call naming end_session_tool; no write else
RequestEnd(requested, fc) == requested \/ fc

\* lines 158-187, a response with server_content.model_turn: with or without
\* an audio part, with or without a function_call part naming
\* end_session_tool, and with text parts or not as `texts` allows. The audio
\* part is played first (line 169).
ModelTurn(texts) ==
    /\ output_pc = "recv"
    /\ channel = "open"
    /\ events_left > 0
    /\ events_left' = events_left - 1
    /\ turn_open' = TRUE
    /\ response_bound' = TRUE
    /\ is_ai_speaking' = TRUE
    /\ \E audio \in BOOLEAN, fc \in BOOLEAN, text \in texts :
          IF audio
          THEN /\ out_thread' = "queued"
               /\ output_pc' = "write"
               /\ cur_fc' = fc
               /\ cur_text' = text
               /\ UNCHANGED << end_session_requested, bufferVars >>
          ELSE /\ end_session_requested' = RequestEnd(end_session_requested, fc)
               /\ LogAgentText(text)
               /\ UNCHANGED << out_thread, output_pc, cur_fc, cur_text >>
    /\ UNCHANGED << should_end_session, last_context_update, audioVars,
                    in_thread, main_pc, input_pc, context_pc, audio_data,
                    exit_exc, channel, coordVars, callbacks, last_chunk,
                    late_io, injected, componentVars >>

\* The responses of the session as line 333 configures it,
\* response_modalities=["AUDIO"]: the parts of a model turn carry no text
OutputModelTurn == ModelTurn({FALSE})

\* A response whose model turn carries text parts (lines 172-173)
OutputTextTurn == ModelTurn({TRUE})

\* AudioHandler.write_output, line 106, on the worker thread; on a closed
\* stream is_active() raises, which ends the loop at lines 240-243
WriteOutputStart ==
    /\ out_thread = "queued"
    /\ IF output_stream = "open"
       THEN /\ out_thread' = "busy"
            /\ UNCHANGED << output_pc, cur_fc, cur_text >>
       ELSE /\ out_thread' = "idle"
            /\ output_pc' = IF output_pc = "write" THEN "dead" ELSE output_pc
            /\ cur_fc' = FALSE
            /\ cur_text' = FALSE
    /\ UNCHANGED << stateVars, audioVars, in_thread, main_pc, input_pc,
                    context_pc, audio_data, response_bound, exit_exc, envVars,
                    coordVars, callbacks, last_chunk, late_io, injected, bufferVars, componentVars >>

\* AudioHandler.write_output, line 107: the device write returns; the loop,
\* unless cancelled meanwhile, goes on with the text and function_call
\* parts (lines 172-187) and the next response
WriteOutputDone ==
    /\ out_thread = "busy"
    /\ out_thread' = "idle"
    /\ late_io' = (late_io \/ output_stream = "closed")
    /\ cur_fc' = FALSE
    /\ cur_text' = FALSE
    /\ IF output_pc = "write"
       THEN /\ output_pc' = "recv"
            /\ end_session_requested' =
                  RequestEnd(end_session_requested, cur_fc)
            /\ LogAgentText(cur_text)
       ELSE UNCHANGED << output_pc, end_session_requested, bufferVars >>
    /\ UNCHANGED << is_ai_speaking, should_end_session, last_context_update,
                    audioVars, in_thread, main_pc, input_pc, context_pc,
                    audio_data, response_bound, exit_exc, envVars, coordVars,
                    callbacks, last_chunk, injected,
                    componentVars >>

\* lines 191-192: server_content.turn_complete; await sleep(ECHO_DELAY)
OutputTurnComplete ==
    /\ output_pc = "recv"
    /\ channel = "open"
    /\ turn_open
    /\ turn_open' = FALSE
    /\ response_bound' = TRUE
    /\ output_pc' = "echo_delay"
    /\ UNCHANGED << stateVars, audioVars, threadVars, main_pc, input_pc,
                    context_pc, audio_data, cur_fc, cur_text, exit_exc,
                    channel, events_left, coordVars, callbacks, last_chunk,
                    late_io, injected, bufferVars, componentVars >>

\* lines 193-200: is_ai_speaking = False; with an end request pending,
\* await sleep(FINAL_AUDIO_WAIT); else the turn's receive() ends and the
\* while of line 156 is evaluated
EchoDelayDone ==
    /\ output_pc = "echo_delay"
    /\ is_ai_speaking' = FALSE
    /\ output_pc' = IF end_session_requested THEN "final_wait"
                    ELSE IF should_end_session THEN "done" ELSE "recv"
    /\ UNCHANGED << should_end_session, end_session_requested,
                    last_context_update, audioVars, threadVars, main_pc,
                    input_pc, context_pc, audio_data, cur_fc, cur_text,
                    response_bound, exit_exc, envVars, coordVars, callbacks,
                    last_chunk, late_io, injected, bufferVars,
                    componentVars >>

\* The callback called with should_end_session not yet set: C27 must fail
\* with it.
CallbackBeforeFlag ==
    /\ output_pc = "final_wait"
    /\ Notify("ai_initiated")
    /\ output_pc' = "callback_ai"
    /\ UNCHANGED << stateVars, audioVars, threadVars, main_pc, input_pc,
                    context_pc, audio_data, cur_fc, cur_text, response_bound,
                    exit_exc, envVars, coordVars, last_chunk, late_io,
                    injected, bufferVars, componentVars >>

\* lines 201-204: should_end_session = True; the callback is called
FinalWaitDone ==
    /\ output_pc = "final_wait"
    /\ should_end_session' = TRUE
    /\ Notify("ai_initiated")
    /\ output_pc' = "callback_ai"
    /\ UNCHANGED << is_ai_speaking, end_session_requested,
                    last_context_update, audioVars, threadVars, main_pc,
                    input_pc, context_pc, audio_data, cur_fc, cur_text,
                    response_bound, exit_exc, envVars, coordVars, last_chunk,
                    late_io, injected, bufferVars, componentVars >>

\* lines 204-205: the callback returns and the loop returns (or it raises
\* and lines 240-243 break out of the loop)
CallbackAiDone ==
    /\ output_pc = "callback_ai"
    /\ output_pc' = "done"
    /\ UNCHANGED << stateVars, audioVars, threadVars, main_pc, input_pc,
                    context_pc, audio_data, cur_fc, cur_text, response_bound,
                    exit_exc, envVars, coordVars, callbacks, last_chunk,
                    late_io, injected, bufferVars, componentVars >>

\* lines 208-219: a response with tool_call naming end_session_tool
OutputToolCall ==
    /\ output_pc = "recv"
    /\ channel = "open"
    /\ events_left > 0
    /\ events_left' = events_left - 1
    /\ response_bound' = TRUE
    /\ end_session_requested' = TRUE
    /\ UNCHANGED << is_ai_speaking, should_end_session, last_context_update,
                    audioVars, threadVars, main_pc, input_pc, output_pc,
                    context_pc, audio_data, cur_fc, cur_text, exit_exc,
                    channel, turn_open, coordVars, callbacks, last_chunk,
                    late_io, injected, bufferVars, componentVars >>

\* lines 224-229: receive() raises ConnectionClosedError
OutputConnectionClosedError ==
    /\ output_pc = "recv"
    /\ channel = "closed_error"
    /\ should_end_session' = TRUE
    /\ Notify("connection_closed")
    /\ output_pc' = "closed_cb"
    /\ UNCHANGED << is_ai_speaking, end_session_requested,
                    last_context_update, audioVars, threadVars, main_pc,
                    input_pc, context_pc, audio_data, cur_fc, cur_text,
                    response_bound, exit_exc, envVars, coordVars, last_chunk,
                    late_io, injected, bufferVars, componentVars >>

\* lines 229-232: the callback returns, or raises and is ignored; break
ClosedCallbackDone ==
    /\ output_pc = "closed_cb"
    /\ output_pc' = "done"
    /\ UNCHANGED << stateVars, audioVars, threadVars, main_pc, input_pc,
                    context_pc, audio_data, cur_fc, cur_text, response_bound,
                    exit_exc, envVars, coordVars, callbacks, last_chunk,
                    late_io, injected, bufferVars, componentVars >>

\* lines 240-243: receive() raises on a channel closed without error (a
\* ConnectionClosedOK is no ConnectionClosedError): print, break
OutputConnectionClosedOk ==
    /\ output_pc = "recv"
    /\ channel = "closed_ok"
    /\ output_pc' = "dead"
    /\ UNCHANGED << stateVars, audioVars, threadVars, main_pc, input_pc,
                    context_pc, audio_data, cur_fc, cur_text, response_bound,
                    exit_exc, envVars, coordVars, callbacks, last_chunk,
                    late_io, injected, bufferVars, componentVars >>

\* lines 240-243: receive() or the handling of a response raises any other
\* Exception: print, break
OutputRecvError ==
    /\ output_pc = "recv"
    /\ channel = "open"
    /\ events_left > 0
    /\ events_left' = events_left - 1
    /\ output_pc' = "dead"
    /\ UNCHANGED << stateVars, audioVars, threadVars, main_pc, input_pc,
                    context_pc, audio_data, cur_fc, cur_text, response_bound,
                    exit_exc, channel, turn_open, coordVars, callbacks,
                    last_chunk, late_io, injected, bufferVars,
                    componentVars >>

\* lines 233-239: AttributeError: the handler reads `response`, then
\* continue; with `response` not yet bound (receive() itself raised before
\* the first response) the handler raises UnboundLocalError, which no
\* clause catches: the task ends with that exception
OutputAttributeError ==
    /\ output_pc = "recv"
    /\ channel = "open"
    /\ events_left > 0
    /\ events_left' = events_left - 1
    /\ output_pc' = IF response_bound THEN "recv" ELSE "failed"
    /\ UNCHANGED << stateVars, audioVars, threadVars, main_pc, input_pc,
                    context_pc, audio_data, cur_fc, cur_text, response_bound,
                    exit_exc, channel, turn_open, coordVars, callbacks,
                    last_chunk, late_io, injected, bufferVars,
                    componentVars >>

\* lines 221-223: except asyncio.CancelledError: break; a CancelledError
\* thrown into the await of line 229 leaves the task cancelled
OutputCancelled ==
    /\ output_pc \in {"cancelling", "cancelling_cb"}
    /\ output_pc' = IF output_pc = "cancelling" THEN "done" ELSE "cancelled"
    /\ UNCHANGED << stateVars, audioVars, threadVars, main_pc, input_pc,
                    context_pc, audio_data, cur_fc, cur_text, response_bound,
                    exit_exc, envVars, coordVars, callbacks, last_chunk,
                    late_io, injected, bufferVars, componentVars >>

\* the steps the output loop takes by itself
OutputStep ==
    \/ EchoDelayDone \/ FinalWaitDone \/ CallbackAiDone
    \/ OutputConnectionClosedError \/ ClosedCallbackDone
    \/ OutputConnectionClosedOk \/ OutputCancelled

\* the steps the remote model decides
ModelEvent ==
    \/ OutputModelTurn \/ OutputTurnComplete \/ OutputToolCall
    \/ OutputRecvError \/ OutputAttributeError

\* the worker thread of a read_input call, and of a write_output call
ReadThreadStep == ReadInputStart \/ ReadInputDone
WriteThreadStep == WriteOutputStart \/ WriteOutputDone

(***************************************************************************)
(* context_injection_loop (lines 248-281)                                  *)
(***************************************************************************)

\* lines 254-255: while not state.should_end_session: await sleep(45)
ContextLoopTop ==
    /\ context_pc = "loop"
    /\ context_pc' = IF should_end_session THEN "done" ELSE "sleep"
    /\ UNCHANGED << stateVars, audioVars, threadVars, main_pc, input_pc,
                    output_pc, audio_data, cur_fc, cur_text, response_bound,
                    exit_exc, envVars, coordVars, callbacks, last_chunk,
                    late_io, injected, bufferVars, componentVars >>

\* ShouldInject without the comparison with the context sent last: C12
\* must fail with it.
ShouldInjectAlways(context, last) == context # 0

\* line 260: if context and context != state.last_context_update
ShouldInject(context, last) == context # 0 /\ context # last

\* lines 257-275, after the sleep: `if state.live_coordinator and not
\* state.end_session_requested`, get_context_for_agent(); a new non-empty
\* context is remembered and passed to session.send_client_content, which
\* raises on a closed channel (caught at line 280: the loop ends)
ContextWake ==
    /\ context_pc = "sleep"
    /\ IF end_session_requested
       THEN /\ context_pc' = "loop"
            /\ UNCHANGED << last_context_update, injected >>
       ELSE IF ShouldInject(coord_context, last_context_update)
       THEN /\ last_context_update' = coord_context
            /\ injected' = Append(injected, coord_context)
            /\ context_pc' = IF channel = "open" THEN "loop" ELSE "dead"
       ELSE /\ context_pc' = "loop"
            /\ UNCHANGED << last_context_update, injected >>
    /\ UNCHANGED << is_ai_speaking, should_end_session, end_session_requested,
                    audioVars, threadVars, main_pc, input_pc, output_pc,
                    audio_data, cur_fc, cur_text, response_bound, exit_exc,
                    envVars, coordVars, callbacks, last_chunk, late_io,
                    bufferVars, componentVars >>

\* lines 277-279: except asyncio.CancelledError
ContextCancelled ==
    /\ context_pc = "cancelling"
    /\ context_pc' = "done"
    /\ UNCHANGED << stateVars, audioVars, threadVars, main_pc, input_pc,
                    output_pc, audio_data, cur_fc, cur_text, response_bound,
                    exit_exc, envVars, coordVars, callbacks, last_chunk,
                    late_io, injected, bufferVars, componentVars >>

ContextStep == ContextLoopTop \/ ContextWake \/ ContextCancelled

(***************************************************************************)
(* The environment: the transport, the live coordinator                    *)
(***************************************************************************)

\* The remote end or the network closes the channel: with an error
\* (receive() raises ConnectionClosedError) or without
ChannelCloses ==
    /\ channel = "open"
    /\ \E c \in {"closed_error", "closed_ok"} : channel' = c
    /\ UNCHANGED << stateVars, audioVars, threadVars, main_pc, input_pc,
                    output_pc, context_pc, audio_data, cur_fc, cur_text,
                    response_bound, exit_exc, turn_open, events_left,
                    coordVars, callbacks, last_chunk, late_io, injected, bufferVars, componentVars >>

\* LiveAgentCoordinator publishes an analysis (last_analysis replaced)
AnalysisComplete ==
    /\ coord_running
    /\ coord_context < MaxAnalyses
    /\ coord_context' = coord_context + 1
    /\ UNCHANGED << stateVars, audioVars, threadVars, main_pc, input_pc,
                    output_pc, context_pc, audio_data, cur_fc, cur_text,
                    response_bound, exit_exc, envVars, coord_running,
                    callbacks, last_chunk, late_io, injected,
                    bufferVars, componentVars >>

Next ==
    \/ MainStep \/ ConnectFails \/ OpenOutputFails \/ WaitOutputTimeout
    \/ KeyboardInterrupt
    \/ InputStep \/ OutputStep \/ ContextStep
    \/ ReadThreadStep \/ WriteThreadStep
    \/ ModelEvent \/ ChannelCloses \/ AnalysisComplete

Spec == Init /\ [][Next]_vars

\* The session when the model's turns may carry text parts as well
TranscriptNext == Next \/ OutputTextTurn

TranscriptSpec == Init /\ [][TranscriptNext]_vars

\* asyncio runs every ready task, the worker threads run, sleeps and the
\* 5 s of wait_for end, callbacks return; and the remote model completes a
\* turn it has begun while the channel is open.
FairSpec ==
    /\ Spec
    /\ WF_vars(MainStep) /\ WF_vars(WaitOutputTimeout)
    /\ WF_vars(InputStep) /\ WF_vars(OutputStep) /\ WF_vars(ContextStep)
    /\ WF_vars(ReadThreadStep) /\ WF_vars(WriteThreadStep)
    /\ SF_vars(OutputTurnComplete)

TypeOK ==
    /\ is_ai_speaking \in BOOLEAN
    /\ should_end_session \in BOOLEAN
    /\ end_session_requested \in BOOLEAN
    /\ last_context_update \in 0..MaxAnalyses
    /\ input_stream \in {"none", "open", "closed"}
    /\ output_stream \in {"none", "open", "closed"}
    /\ in_thread \in {"idle", "queued", "busy"}
    /\ out_thread \in {"idle", "queued", "busy"}
    /\ main_pc \in RunPcs \cup Exited \cup {"ki_handler", "ki_cb", "finally"}
    /\ input_pc \in Finished \cup {"idle", "loop", "read", "check", "cancelling"}
    /\ output_pc \in Finished \cup {"idle", "recv", "write", "echo_delay",
                      "final_wait", "callback_ai", "closed_cb", "cancelling",
                      "cancelling_cb"}
    /\ context_pc \in Finished \cup {"idle", "loop", "sleep", "cancelling"}
    /\ channel \in {"none", "open", "closed_error", "closed_ok"}
    /\ events_left \in 0..MaxEvents
    /\ coord_context \in 0..MaxAnalyses
    /\ \A i \in 1..Len(callbacks) : callbacks[i] \in Reasons
    /\ cur_text \in BOOLEAN
    /\ \A i \in 1..Len(injected) : injected[i] \in 1..MaxAnalyses
    /\ \A i \in 1..Len(segments) : segments[i].speaker \in Speakers
    /\ buf_adds \in 0..(MaxAdds + MaxEvents)
    /\ health_call.called \in BOOLEAN
    /\ sentiment_call.called \in BOOLEAN
    /\ social_pc \in {"idle", "call", "tool", "returned"}
    /\ iteration \in 0..max_iterations
    /\ model_calls \in 0..max_iterations
    /\ \A c \in Cycles :
          cyc_pc[c] \in {"none", "created", "agents", "gather", "callback",
                         "skipped", "failed", "cancelled", "done"}
    /\ periodic_cycle \in {0} \cup Cycles
    /\ stop_call.returned \in BOOLEAN
    /\ stop_call.in_flight \subseteq Cycles
    /\ mob_is_active \in BOOLEAN
    /\ mob_should_end \in BOOLEAN
    /\ mob_end_requested \in BOOLEAN
    /\ handler_pc \in {"loop", "receive", "sending", "end_client", "finally",
                       "cleanup", "done"}
    /\ recv_pc \in {"recv", "tool_response", "model_turn", "turn_complete",
                    "sleep", "ending", "done", "cancelled"}
    /\ ctx_pc \in {"sleep", "done", "cancelled"}
    /\ \A c \in DOMAIN es_pc : es_pc[c] \in {"none", "notify", "stop", "return"}
    /\ audio_sent + audio_dropped <= MaxMessages
    /\ messages_left \in 0..MaxMessages
    /\ responses_left \in 0..MaxResponses
    /\ gemini_session \in {"open", "closed"}
    /\ analysis_count \in 0..MaxCalls
    /\ notified.count \in 0..MaxCalls
    /\ Len(mood_history) <= MoodHistoryLen


(***************************************************************************)
(* TranscriptBuffer (src/live_transcript_handler.py:41-67) and the tasks   *)
(* that call it. A string is the sequence of its words and separators.     *)
(* An operation is taken in two steps, entering `async with self._lock`    *)
(* and the body with the release, which allows every interleaving of the   *)
(* callers that asyncio allows (it switches tasks at an await only, and    *)
(* the bodies have none) and those of callers on threads as well.          *)
(***************************************************************************)

\* sep.join(strs)
RECURSIVE Join(_, _)
Join(sep, strs) ==
    IF strs = << >> THEN << >>
    ELSE IF Len(strs) = 1 THEN strs[1]
    ELSE strs[1] \o << sep >> \o Join(sep, Tail(strs))

\* list[:n], the first n items instead of the last: C15 must fail with it.
FirstN(list, n) == SubSeq(list, 1, IF Len(list) > n THEN n ELSE Len(list))

\* list[-n:] for n >= 1, line 58
LastN(list, n) ==
    SubSeq(list, (IF Len(list) > n THEN Len(list) - n ELSE 0) + 1, Len(list))

\* line 57: n = num_segments or self.analysis_window; num_segments 0 stands
\* for None as well (both are falsy)
WindowOf(num_segments) ==
    IF num_segments = 0 THEN AnalysisWindow ELSE num_segments

\* line 58: s.speaker == "user"
IsUser(s) == s.speaker = "user"

\* line 59: [s.text for s in user_segments]
TextsOf(segs) == [i \in 1..Len(segs) |-> << segs[i].text >>]

\* get_recent_user_text, lines 57-59
GetRecentUserText(segs, num_segments) ==
    LET n == WindowOf(num_segments)
        user_segments == SelectSeq(LastN(segs, n), IsUser)
    IN  Join(" ", TextsOf(user_segments))

\* str.upper() of a speaker
Upper(speaker) == IF speaker = "user" THEN "USER" ELSE "AGENT"

\* get_full_conversation, lines 64-67
GetFullConversation(segs) ==
    Join("\n", [i \in 1..Len(segs) |->
                   << Upper(segs[i].speaker), ": ", segs[i].text >>])

\* A lock that is never seen held: C16 must fail with it.
NeverLocked(lock) == FALSE

\* asyncio.Lock.locked(): acquire() goes on only when the lock is not held
Locked(lock) == lock

\* async with self._lock (lines 51, 56, 63): task t enters operation op
Enter(t, op, arg) ==
    /\ buf_pc[t] = "idle"
    /\ ~Locked(buf_lock)
    /\ buf_lock' = TRUE
    /\ buf_pc' = [buf_pc EXCEPT ![t] = op]
    /\ buf_arg' = [buf_arg EXCEPT ![t] = arg]
    /\ UNCHANGED << bufferVars, buf_result, buf_history, sessionVars,
                    coordVars, periodicVars, analysisVars >>

\* the end of the async with block: the lock is released, the call returns
Leave(t, value) ==
    /\ buf_result' = [buf_result EXCEPT ![t] =
                         [op |-> buf_pc[t], arg |-> buf_arg[t], value |-> value]]
    /\ buf_pc' = [buf_pc EXCEPT ![t] = "idle"]
    /\ buf_arg' = [buf_arg EXCEPT ![t] = IF t \in Writers THEN "none" ELSE 0]
    /\ buf_lock' = FALSE
    /\ UNCHANGED << sessionVars, coordVars, periodicVars, analysisVars >>

EnterAddSegment ==
    \E t \in Writers, speaker \in Speakers :
        buf_adds < MaxAdds /\ Enter(t, "add_segment", speaker)

\* line 52
AddSegmentBody ==
    \E t \in Writers :
        /\ buf_pc[t] = "add_segment"
        /\ AddSegment(buf_arg[t])
        /\ buf_history' = buf_history \cup {segments'}
        /\ Leave(t, << >>)

EnterGetRecentUserText ==
    \E t \in Readers, n \in 0..MaxN : Enter(t, "get_recent_user_text", n)

\* lines 57-59
GetRecentUserTextBody ==
    \E t \in Readers :
        /\ buf_pc[t] = "get_recent_user_text"
        /\ Leave(t, GetRecentUserText(segments, buf_arg[t]))
        /\ UNCHANGED << bufferVars, buf_history >>

EnterGetFullConversation ==
    \E t \in Readers : Enter(t, "get_full_conversation", 0)

\* lines 64-67
GetFullConversationBody ==
    \E t \in Readers :
        /\ buf_pc[t] = "get_full_conversation"
        /\ Leave(t, GetFullConversation(segments))
        /\ UNCHANGED << bufferVars, buf_history >>

BufNext ==
    \/ EnterAddSegment \/ AddSegmentBody
    \/ EnterGetRecentUserText \/ GetRecentUserTextBody
    \/ EnterGetFullConversation \/ GetFullConversationBody

BufSpec == Init /\ [][BufNext]_vars

(***************************************************************************)
(* LiveAgentCoordinator.start, stop and _periodic_analysis_loop            *)
(* (src/live_transcript_handler.py:100-118 and 138-146)                    *)
(***************************************************************************)

\* A periodic task that exists and is not done
Live == {"loop", "sleep", "analyze", "cancelling"}

\* start(), lines 100-107: _running = True and
\* self._analysis_task = asyncio.create_task(self._periodic_analysis_loop()),
\* whatever _running was
Start ==
    /\ \E t \in PeriodicTasks :
          /\ p_pc[t] = "none"
          /\ \A u \in PeriodicTasks : u < t => p_pc[u] # "none"
          /\ p_pc' = [p_pc EXCEPT ![t] = "loop"]
          /\ analysis_task' = t
    /\ coord_running' = TRUE
    /\ UNCHANGED << stop_awaits, coord_context, sessionVars, bufferVars,
                    bufTaskVars, analysisVars >>

\* Task.cancel(): CancelledError is thrown into the task at its await
CancelTask(pc) == IF pc \in {"loop", "sleep", "analyze"} THEN "cancelling" ELSE pc

\* stop(), lines 109-115: _running = False; if self._analysis_task: cancel()
\* and await it. The await of a task that is done returns at once.
StopBegin ==
    /\ stop_awaits = 0
    /\ coord_running' = FALSE
    /\ IF analysis_task # 0 /\ p_pc[analysis_task] # "done"
       THEN /\ p_pc' = [p_pc EXCEPT ![analysis_task] = CancelTask(@)]
            /\ stop_awaits' = analysis_task
       ELSE UNCHANGED << p_pc, stop_awaits >>
    /\ UNCHANGED << analysis_task, coord_context, sessionVars, bufferVars,
                    bufTaskVars, analysisVars >>

\* stop() without the await of the task: C18 must fail with it.
AwaitSkipped(pc) == TRUE

\* lines 114-117: `await self._analysis_task` returns, or raises the
\* CancelledError that stop() passes over, when the task is done
AwaitReturns(pc) == pc = "done"

StopReturn ==
    /\ stop_awaits # 0
    /\ AwaitReturns(p_pc[stop_awaits])
    /\ stop_awaits' = 0
    /\ UNCHANGED << p_pc, analysis_task, coordVars, sessionVars, bufferVars,
                    bufTaskVars, analysisVars >>

\* lines 141-142: while self._running: await asyncio.sleep(30)
PeriodicLoopTop ==
    \E t \in PeriodicTasks :
        /\ p_pc[t] = "loop"
        /\ p_pc' = [p_pc EXCEPT ![t] = IF coord_running THEN "sleep" ELSE "done"]
        /\ UNCHANGED << analysis_task, stop_awaits, coordVars, sessionVars,
                        bufferVars, bufTaskVars, analysisVars >>

\* lines 143-144: the sleep is over; if self._running: await _analyze_now()
PeriodicWake ==
    \E t \in PeriodicTasks :
        /\ p_pc[t] = "sleep"
        /\ p_pc' = [p_pc EXCEPT ![t] = IF coord_running THEN "analyze" ELSE "loop"]
        /\ UNCHANGED << analysis_task, stop_awaits, coordVars, sessionVars,
                        bufferVars, bufTaskVars, analysisVars >>

\* _analyze_now() returns: it has published an analysis (lines 202-203), or
\* skipped (line 155) or failed (lines 229-231)
PeriodicAnalyzed ==
    \E t \in PeriodicTasks :
        /\ p_pc[t] = "analyze"
        /\ p_pc' = [p_pc EXCEPT ![t] = "loop"]
        /\ \E published \in BOOLEAN :
              coord_context' = IF published /\ coord_context < MaxAnalyses
                               THEN coord_context + 1 ELSE coord_context
        /\ UNCHANGED << analysis_task, stop_awaits, coord_running, sessionVars,
                        bufferVars, bufTaskVars, analysisVars >>

\* lines 145-146: except asyncio.CancelledError: pass
PeriodicCancelled ==
    \E t \in PeriodicTasks :
        /\ p_pc[t] = "cancelling"
        /\ p_pc' = [p_pc EXCEPT ![t] = "done"]
        /\ UNCHANGED << analysis_task, stop_awaits, coordVars, sessionVars,
                        bufferVars, bufTaskVars, analysisVars >>

CoordNext ==
    \/ Start \/ StopBegin \/ StopReturn
    \/ PeriodicLoopTop \/ PeriodicWake \/ PeriodicAnalyzed
    \/ PeriodicCancelled

CoordSpec == Init /\ [][CoordNext]_vars

(***************************************************************************)
(* The agents of src/agents.py, each called on its own (AgentSpec).        *)
(* Numbers that Python holds as floats are computed exactly: a sleep       *)
(* duration is a whole number of tenths of an hour, and a score before     *)
(* rounding a whole number of 1/200 of a point (steps / 10000 * 50 is      *)
(* steps / 200, and sleep / 8 * 50 is 125 / 200 for each tenth of an hour).*)
(***************************************************************************)

\* what a step of an agent leaves alone
notAgentVars == << sessionVars, coordVars, bufferVars, bufTaskVars,
                   periodicVars, cycleVars, mobileVars >>

\* health_data['steps_today'] and health_data['sleep_hours_last_night'] (in
\* tenths of an hour) of the calls: negative, zero, on both sides of the
\* thresholds of lines 336-340 and of the caps of line 332, and above them
StepsInputs == {-200, 0, 100, 300, 4999, 5000, 9900, 10000, 20000}
SleepInputs == {-8, 0, 69, 70, 80, 120}

\* Python's min(a, b)
PyMin(a, b) == IF b < a THEN b ELSE a

\* Python's round(n / d) for d > 0: the nearest integer, and the even one of
\* the two when n / d lies halfway between them
PyRound(n, d) ==
    LET q == n \div d
        r == n % d
    IN  IF 2 * r < d THEN q
        ELSE IF 2 * r > d THEN q + 1
        ELSE IF q % 2 = 0 THEN q ELSE q + 1

\* line 332, min(steps / 10000 * 50, 50) and min(sleep / 8 * 50, 50), in
\* 1/200 of a point
StepsTerm(steps) == PyMin(steps, 50 * 200)
SleepTerm(sleep) == PyMin(125 * sleep, 50 * 200)

\* lines 332-333
HealthScore(steps, sleep) ==
    PyRound(StepsTerm(steps) + SleepTerm(sleep), 200)

\* `<=` in the place of `<`: C22 must fail with it.
AtMost(x, limit) == x <= limit

\* the `<` of lines 336, 338 and 340
Below(x, limit) == x < limit

\* lines 335-343, the first sentence of the suggestion chosen; 70 tenths of
\* an hour are the 7.0 of the code
HealthSuggestion(steps, sleep) ==
    IF Below(sleep, 70) /\ Below(steps, 5000)
    THEN "You were low on both sleep and activity."
    ELSE IF Below(sleep, 70) THEN "Your sleep was low."
    ELSE IF Below(steps, 5000) THEN "Your steps are low."
    ELSE "Your health metrics look good!"

\* A call of HealthAgent.__call__, lines 326-353, the one call of a
\* behaviour. The call of BaseAgent.__call__ at line 345 returns in every
\* case (lines 137-165) and its messages are not part of the score or of the
\* suggestion.
HealthAgentCall ==
    \E steps \in StepsInputs, sleep \in SleepInputs :
        /\ ~health_call.called
        /\ health_call' = [called |-> TRUE, steps |-> steps, sleep |-> sleep,
                           score |-> HealthScore(steps, sleep),
                           suggestion |-> HealthSuggestion(steps, sleep)]
        /\ UNCHANGED << sentiment_call, social_pc, iteration, model_calls,
                        response, social_out, notAgentVars >>

\* What generate_content_stream does in a call of SentimentAgent: it raises
\* ("error"), or it returns text that is no JSON ("invalid", and
\* "invalid_skipped" when the text has the word `skipped` in it), a JSON
\* array, or a JSON object with the value `score` under "mood_score".
Reply(kind, json, score) == [kind |-> kind, json |-> json, score |-> score]

NullValue == [type |-> "null", val |-> 0]

\* "mood_score" in the model's JSON object: missing, null, integers inside
\* and outside 1..10, 7.5, a string
MoodScores == {Absent, NullValue, IntValue(0), IntValue(2), IntValue(10),
               IntValue(11), FloatValue(75), StrValue}

ModelReplies ==
    {Reply("error", "none", Absent), Reply("text", "invalid", Absent),
     Reply("text", "invalid_skipped", Absent), Reply("text", "array", Absent)}
    \cup {Reply("text", "object", v) : v \in MoodScores}

\* BaseAgent.__call__, lines 132-165: the content of the last message it
\* returns, a fixed sentence or a prefix and what the model said
BaseAgentCall(client, reply) ==
    IF ~client
    THEN [prefix |-> "Agent skipped due to missing API key.", body |-> NoReply]
    ELSE IF reply.kind = "error"
    THEN [prefix |-> "Agent error: ", body |-> NoReply]
    ELSE [prefix |-> "Agent response: ", body |-> reply]

\* line 184: content.replace("Agent response: ", "")
FullResponse(content) ==
    IF content.prefix = "Agent response: "
    THEN [content EXCEPT !.prefix = ""] ELSE content

\* lines 187-188, json.loads of the text without its code fence: the
\* exception it raises, "none" when it returns
JsonLoads(full) ==
    IF full.prefix # "" \/ full.body.json \in {"invalid", "invalid_skipped"}
    THEN "JSONDecodeError" ELSE "none"

\* lines 191-192: data.get exists when data is a dict
DataGet(full) == IF full.body.json = "object" THEN "none" ELSE "AttributeError"

\* the exception lines 187-194 raise
ParseError(full) ==
    IF JsonLoads(full) # "none" THEN JsonLoads(full) ELSE DataGet(full)

\* `except json.JSONDecodeError` in the place of line 195: C24 must fail
\* with it.
ExceptJsonError(exc) == exc = "JSONDecodeError"

\* line 195: except Exception
ExceptException(exc) == exc \in {"JSONDecodeError", "AttributeError"}

\* line 196: 'skipped' in full_response.lower()
MentionsSkipped(full) ==
    \/ full.prefix = "Agent skipped due to missing API key."
    \/ full.body.json = "invalid_skipped"

\* dict.get(key, default)
GetOr(value, default) == IF value = Absent THEN default ELSE value

\* SentimentAgent.__call__, lines 181-207: what it returns, or that it raised
SentimentAgent(client, reply) ==
    LET full == FullResponse(BaseAgentCall(client, reply))
        exc == ParseError(full)
    IN  IF exc = "none"
        THEN [raised |-> FALSE,
              mood_score |-> GetOr(full.body.score, IntValue(5)),
              mood_analysis |-> "data.get"]
        ELSE IF ~ExceptException(exc)
        THEN [raised |-> TRUE, mood_score |-> Absent, mood_analysis |-> "none"]
        ELSE IF MentionsSkipped(full)
        THEN [raised |-> FALSE, mood_score |-> IntValue(5),
              mood_analysis |-> "full_response"]
        ELSE [raised |-> FALSE, mood_score |-> IntValue(5),
              mood_analysis |-> "mood appears moderate"]

\* the replies the model can give to a call: none without a CLIENT
RepliesTo(client) == IF client THEN ModelReplies ELSE {NoReply}

\* a call of SentimentAgent, the one call of a behaviour; `client` is whether
\* CLIENT is set (line 18)
SentimentAgentCall ==
    \E client \in BOOLEAN :
        \E reply \in RepliesTo(client) :
            /\ ~sentiment_call.called
            /\ sentiment_call' = [called |-> TRUE, client |-> client,
                                  reply |-> reply,
                                  result |-> SentimentAgent(client, reply)]
            /\ UNCHANGED << health_call, social_pc, iteration, model_calls,
                            response, social_out, notAgentVars >>

\* the suggestions of SocialAgent.__call__: lines 232, 300 and 307, and the
\* text of the model (line 288)
BoardsSuggestion ==
    "Consider checking local community boards for events that match your interests."
GenericSuggestion ==
    "Consider exploring local community events that align with your wellness goals."
ResourcesSuggestion ==
    "Consider checking local community resources for social activities."
ModelSuggestion == "suggestion"

\* The parts of a response of generate_content: a function_call part (of a
\* tool in tool_map, or of a name that is not in it) and text parts. A
\* response without candidates or parts has neither.
Responses ==
    [function_call : {"none", "get_user_interests", "unknown"}, text : BOOLEAN]

\* `while True`: C23 must fail with it.
WhileTrue(i) == TRUE

\* line 242: while iteration < max_iterations
WhileGuard(i) == i < max_iterations

\* lines 242-250 and 298-302: the loop test, then iteration += 1 and the
\* next generate_content, or the return after the loop. `response` is None
\* while the call is in flight.
SocialLoop(i, calls) ==
    IF WhileGuard(i)
    THEN /\ iteration' = i + 1
         /\ model_calls' = calls + 1
         /\ response' = NoResponse
         /\ social_pc' = "call"
         /\ social_out' = "none"
    ELSE /\ iteration' = i
         /\ model_calls' = calls
         /\ social_pc' = "returned"
         /\ social_out' = GenericSuggestion
         /\ UNCHANGED response

\* SocialAgent.__call__ is called, lines 227-250
SocialBegin ==
    /\ social_pc \in {"idle", "returned"}
    /\ \E client \in BOOLEAN :
          IF client
          THEN SocialLoop(0, 0)
          ELSE /\ social_pc' = "returned"
               /\ social_out' = BoardsSuggestion
               /\ iteration' = 0
               /\ model_calls' = 0
               /\ response' = NoResponse
    /\ UNCHANGED << health_call, sentiment_call, notAgentVars >>

\* the except clause, lines 304-309
SocialExcept ==
    /\ social_pc' = "returned"
    /\ social_out' = ResourcesSuggestion
    /\ UNCHANGED << iteration, model_calls >>

\* generate_content returns or raises, lines 245-296
SocialResponse ==
    /\ social_pc = "call"
    /\ \/ SocialExcept /\ UNCHANGED response
       \/ \E r \in Responses :
             /\ response' = r
             /\ IF r.function_call = "unknown"
                THEN SocialExcept
                ELSE IF r.function_call # "none"
                THEN /\ social_pc' = "tool"
                     /\ UNCHANGED << iteration, model_calls, social_out >>
                ELSE /\ social_pc' = "returned"
                     /\ social_out' = IF r.text THEN ModelSuggestion
                                      ELSE GenericSuggestion
                     /\ UNCHANGED << iteration, model_calls >>
    /\ UNCHANGED << health_call, sentiment_call, notAgentVars >>

\* lines 261-283: the tools of the response have run (the loop goes on at
\* its test), or one of them raised
SocialToolDone ==
    /\ social_pc = "tool"
    /\ \/ SocialLoop(iteration, model_calls)
       \/ SocialExcept /\ UNCHANGED response
    /\ UNCHANGED << health_call, sentiment_call, notAgentVars >>

AgentNext ==
    \/ HealthAgentCall \/ SentimentAgentCall
    \/ SocialBegin \/ SocialResponse \/ SocialToolDone

AgentSpec == Init /\ [][AgentNext]_vars

(***************************************************************************)
(* LiveAgentCoordinator.add_transcript and _analyze_now                    *)
(* (src/live_transcript_handler.py:120-136 and 148-358), with the analysis *)
(* cycles that run at the same time (CycleSpec). A step of a cycle is the   *)
(* code between two suspensions: TranscriptBuffer's lock is free whenever   *)
(* a cycle or add_transcript asks for it (no holder suspends, lines 51-67), *)
(* so the reads of the buffer are part of the step they are called in. A    *)
(* text is one of a few sample strings, and Chars gives its characters,     *)
(* "x" for one that is no whitespace.                                       *)
(***************************************************************************)

\* what a step of add_transcript or of a cycle leaves alone
notCycleVars == << sessionVars, coordVars, bufTaskVars, periodicVars,
                   agentVars, mobileVars >>

\* the texts add_transcript is called with: of 3, 3, 5 and 6 words, and of
\* 9, 10, 9 and 21 characters
UserTexts == {"I am sad.", "I feel sad", "a b c d e", "I am so sad and tired"}
AgentTexts == {"Hello."}
TextsFrom(speaker) == IF speaker = "user" THEN UserTexts ELSE AgentTexts

\* a word of n characters, and a blank
Word(n) == [i \in 1..n |-> "x"]
Blank == << " " >>

\* the characters of a sample text and of the separator of line 59
Chars(text) ==
    CASE text = "" -> << >>
      [] text = " " -> Blank
      [] text = "Hello." -> Word(6)
      [] text = "I am sad." -> Word(1) \o Blank \o Word(2) \o Blank \o Word(4)
      [] text = "I feel sad" -> Word(1) \o Blank \o Word(4) \o Blank \o Word(3)
      [] text = "a b c d e" ->
            Word(1) \o Blank \o Word(1) \o Blank \o Word(1) \o Blank
               \o Word(1) \o Blank \o Word(1)
      [] text = "I am so sad and tired" ->
            Word(1) \o Blank \o Word(2) \o Blank \o Word(2) \o Blank
               \o Word(3) \o Blank \o Word(3) \o Blank \o Word(5)

\* the characters of a string given as the sequence of its texts and
\* separators (what Join returns)
RECURSIVE Flatten(_)
Flatten(tokens) ==
    IF tokens = << >> THEN << >>
    ELSE Chars(Head(tokens)) \o Flatten(Tail(tokens))

\* len(text.split()), line 134: the runs of characters that are no whitespace
SplitLen(chars) ==
    Cardinality({i \in 1..Len(chars) :
                    chars[i] # " " /\ (i = 1 \/ chars[i - 1] = " ")})

\* len(text.strip()), line 154
StripLen(chars) ==
    LET solid == {i \in 1..Len(chars) : chars[i] # " "}
        first == CHOOSE i \in solid : \A j \in solid : i <= j
        last == CHOOSE i \in solid : \A j \in solid : j <= i
    IN  IF solid = {} THEN 0 ELSE last - first + 1

\* `>= 5` in the place of `> 5`: C29 must fail with it.
TriggersFromFive(speaker, text) ==
    speaker = "user" /\ SplitLen(Chars(text)) >= 5

\* line 134: speaker == "user" and len(text.split()) > 5
Triggers(speaker, text) == speaker = "user" /\ SplitLen(Chars(text)) > 5

\* _analyze_now without its test of line 154: C30 must fail with it.
NeverSkips(recent_text) == FALSE

\* line 154: not recent_text or len(recent_text.strip()) < 10
SkipsAnalysis(recent_text) ==
    Flatten(recent_text) = << >> \/ StripLen(Flatten(recent_text)) < 10

\* the calls of add_transcript and of _analyze_now made so far
CallsMade == buf_adds + Cardinality({c \in Cycles : cyc_pc[c] # "none"})

\* the cycle that asyncio.create_task or a call of _analyze_now makes next
FreeCycle ==
    CHOOSE c \in Cycles :
        cyc_pc[c] = "none" /\ \A d \in Cycles : d < c => cyc_pc[d] # "none"

\* add_transcript, lines 120-136: the segment is appended, and
\* asyncio.create_task(self._analyze_now()) makes a task that has not run
\* when add_transcript returns
AddTranscript ==
    /\ CallsMade < MaxCalls
    /\ \E speaker \in Speakers :
          \E text \in TextsFrom(speaker) :
              /\ AppendSegment([speaker |-> speaker, text |-> text])
              /\ IF Triggers(speaker, text)
                 THEN /\ CallsMade + 1 < MaxCalls
                      /\ cyc_pc' = [cyc_pc EXCEPT ![FreeCycle] = "created"]
                 ELSE UNCHANGED cyc_pc
    /\ UNCHANGED << cyc_read, cyc_mood, last_analysis, analysis_count,
                    mood_history, notified, periodic_cycle, stop_call,
                    notCycleVars >>

\* _analyze_now of cycle c up to its first suspension, lines 150-193: it
\* returns at line 155, or reads the conversation, creates the three agent
\* tasks and awaits them
CycleRuns(c) ==
    IF SkipsAnalysis(GetRecentUserText(segments, 0))
    THEN /\ cyc_pc' = [cyc_pc EXCEPT ![c] = "skipped"]
         /\ UNCHANGED cyc_read
    ELSE /\ cyc_pc' = [cyc_pc EXCEPT ![c] = "agents"]
         /\ cyc_read' = [cyc_read EXCEPT ![c] = buf_adds]

\* the task that add_transcript created runs
TriggeredCycle ==
    /\ \E c \in Cycles : cyc_pc[c] = "created" /\ CycleRuns(c)
    /\ UNCHANGED << cyc_mood, last_analysis, analysis_count, mood_history,
                    notified, periodic_cycle, stop_call, bufferVars,
                    notCycleVars >>

\* the cycle the periodic loop awaits is c no more, when c returns
LoopAfter(c) == IF c = periodic_cycle THEN 0 ELSE periodic_cycle

\* _periodic_analysis_loop, lines 141-144: the loop of the task that start()
\* created calls _analyze_now and awaits it; it makes no call while it
\* awaits one, nor after stop() cancelled it
PeriodicCycle ==
    /\ CallsMade < MaxCalls
    /\ ~stop_call.returned
    /\ periodic_cycle = 0
    /\ CycleRuns(FreeCycle)
    /\ periodic_cycle' = IF cyc_pc'[FreeCycle] = "skipped" THEN 0 ELSE FreeCycle
    /\ UNCHANGED << cyc_mood, last_analysis, analysis_count, mood_history,
                    notified, stop_call, bufferVars, notCycleVars >>

\* What the sentiment model says in an analysis cycle: nothing without a
\* CLIENT; else the call raises, or it returns a JSON object whose
\* mood_score is in 1..10, above 10, or a string
CycleReplies(client) ==
    IF client
    THEN {Reply("error", "none", Absent)}
            \cup {Reply("text", "object", v) :
                      v \in {IntValue(2), IntValue(11), StrValue}}
    ELSE {NoReply}

\* _analyze_sentiment, lines 252-263: what it returns after the agent did
SentimentResult(result) ==
    IF result.raised THEN IntValue(5) ELSE GetOr(result.mood_score, IntValue(5))

\* _analyze_sentiment of cycle c, lines 234-263: the agent returns and its
\* mood_score is appended to mood_history
SentimentDone ==
    /\ \E c \in Cycles :
          /\ cyc_pc[c] = "agents"
          /\ \E client \in BOOLEAN :
                \E reply \in CycleReplies(client) :
                    LET result == SentimentAgent(client, reply)
                        mood_score == SentimentResult(result)
                    IN  /\ cyc_mood' = [cyc_mood EXCEPT ![c] = mood_score]
                        /\ mood_history' =
                              IF result.raised THEN mood_history
                              ELSE DequeAppend(mood_history, mood_score,
                                               MoodHistoryLen)
          /\ cyc_pc' = [cyc_pc EXCEPT ![c] = "gather"]
    /\ UNCHANGED << cyc_read, last_analysis, analysis_count, notified,
                    periodic_cycle, stop_call, bufferVars, notCycleVars >>

\* a value Python compares with an int and adds an int to
IsNumber(v) == v.type \in {"int", "float"}

\* _calculate_mood_trend, lines 342-349: with three entries and more,
\* recent[-1] > recent[0] + 1 raises TypeError unless both are numbers
TrendRaises(history) ==
    /\ Len(history) >= 3
    /\ \/ ~IsNumber(history[Len(history)])
       \/ ~IsNumber(history[Len(history) - 2])

\* _build_analysis_result, lines 312-338, raises TypeError: in the trend, or
\* at mood_score <= 3 and mood_score < 4 (lines 354, 324)
BuildRaises(mood_score, history) ==
    TrendRaises(history) \/ ~IsNumber(mood_score)

\* a number in tenths, to compare an int with a float
Tenths(v) == IF v.type = "int" THEN 10 * v.val ELSE v.val

\* `>` and `<` without the margin of 1: C32 must fail with it.
TrendWithoutMargin(history) ==
    IF Len(history) < 3 THEN "stable"
    ELSE LET recent == SubSeq(history, Len(history) - 2, Len(history))
         IN  IF Tenths(recent[3]) > Tenths(recent[1]) THEN "improving"
             ELSE IF Tenths(recent[3]) < Tenths(recent[1]) THEN "declining"
             ELSE "stable"

\* _calculate_mood_trend, lines 340-350: recent = list(mood_history)[-3:],
\* recent[-1] against recent[0] + 1 and recent[0] - 1
CalculateMoodTrend(history) ==
    IF Len(history) < 3 THEN "stable"
    ELSE LET recent == SubSeq(history, Len(history) - 2, Len(history))
         IN  IF Tenths(recent[3]) > Tenths(recent[1]) + 10 THEN "improving"
             ELSE IF Tenths(recent[3]) < Tenths(recent[1]) - 10
             THEN "declining"
             ELSE "stable"

\* `<` in the place of `<=` at line 354: C33 must fail with it.
UrgencyBelow(mood_score, trend) ==
    IF \/ Tenths(mood_score) < 30
       \/ Tenths(mood_score) <= 40 /\ trend = "declining"
    THEN "high"
    ELSE IF Tenths(mood_score) <= 50 \/ trend = "declining" THEN "medium"
    ELSE "low"

\* _calculate_urgency, lines 352-358
CalculateUrgency(mood_score, trend) ==
    IF \/ Tenths(mood_score) <= 30
       \/ Tenths(mood_score) <= 40 /\ trend = "declining"
    THEN "high"
    ELSE IF Tenths(mood_score) <= 50 \/ trend = "declining" THEN "medium"
    ELSE "low"

\* the topics of lines 325, 327 and 328
CopingTopics == << "coping strategies", "self-care", "emotional support" >>
ImmediateTopic == << "immediate wellness techniques" >>
BaseTopics == << "social connection", "healthy activities" >>

\* recommended_topics, lines 322-328: extend, append, extend, in this order
RecommendedTopics(mood_score, urgency) ==
    (IF Tenths(mood_score) < 40 THEN CopingTopics ELSE << >>)
       \o (IF urgency = "high" THEN ImmediateTopic ELSE << >>)
       \o BaseTopics

\* _build_analysis_result, lines 303-338, for a mood_score and a mood_history
\* it does not raise with; `read` is how many segments the transcript had
\* when the cycle read it (no field of LiveAnalysisResult)
BuildAnalysisResult(mood_score, history, read) ==
    LET mood_trend == CalculateMoodTrend(history)
        urgency == CalculateUrgency(mood_score, mood_trend)
    IN  [mood_score |-> mood_score,
         mood_trend |-> mood_trend,
         urgency_level |-> urgency,
         recommended_topics |-> RecommendedTopics(mood_score, urgency),
         read |-> read]

\* lines 190-232 of cycle c: the gather returns, the result is built and
\* published and on_analysis_complete is called with it; or the building
\* raised and line 230 caught it. The callback is the one start() was given.
GatherDone ==
    /\ \E c \in Cycles :
          /\ cyc_pc[c] = "gather"
          /\ IF BuildRaises(cyc_mood[c], mood_history)
             THEN /\ cyc_pc' = [cyc_pc EXCEPT ![c] = "failed"]
                  /\ periodic_cycle' = LoopAfter(c)
                  /\ UNCHANGED << last_analysis, analysis_count, notified >>
             ELSE LET analysis == BuildAnalysisResult(cyc_mood[c],
                                                      mood_history,
                                                      cyc_read[c])
                  IN  /\ last_analysis' = analysis
                      /\ analysis_count' = analysis_count + 1
                      /\ notified' = [count |-> notified.count + 1,
                                       last |-> analysis]
                      /\ cyc_pc' = [cyc_pc EXCEPT ![c] = "callback"]
                      /\ UNCHANGED periodic_cycle
          /\ cyc_mood' = [cyc_mood EXCEPT ![c] = Absent]
          /\ cyc_read' = [cyc_read EXCEPT ![c] = 0]
    /\ UNCHANGED << mood_history, stop_call, bufferVars, notCycleVars >>

\* line 228: on_analysis_complete returns (or raises, lines 230-232)
CallbackDone ==
    /\ \E c \in Cycles :
          /\ cyc_pc[c] = "callback"
          /\ cyc_pc' = [cyc_pc EXCEPT ![c] = "done"]
          /\ periodic_cycle' = LoopAfter(c)
    /\ UNCHANGED << cyc_read, cyc_mood, last_analysis, analysis_count,
                    mood_history, notified, stop_call, bufferVars,
                    notCycleVars >>

\* a cycle that has begun or will begin and has not returned
InFlight(c) == cyc_pc[c] \in {"created", "agents", "gather", "callback"}

\* Task.cancel() of the periodic task, lines 112-117, while it awaits cycle
\* periodic_cycle: CancelledError is thrown at the await of line 190 or 228,
\* which `except Exception` (line 230) does not catch, and the gather
\* cancels the agent tasks
CancelPeriodic(pcs) ==
    IF periodic_cycle = 0 THEN pcs
    ELSE [pcs EXCEPT ![periodic_cycle] = "cancelled"]

\* stop(), lines 109-118, from its call to its return: _running = False, the
\* periodic task is cancelled and awaited. The tasks that add_transcript
\* created (line 136) are referenced nowhere and are left alone.
CycleStop ==
    /\ ~stop_call.returned
    /\ cyc_pc' = CancelPeriodic(cyc_pc)
    /\ cyc_mood' = IF periodic_cycle = 0 THEN cyc_mood
                   ELSE [cyc_mood EXCEPT ![periodic_cycle] = Absent]
    /\ cyc_read' = IF periodic_cycle = 0 THEN cyc_read
                   ELSE [cyc_read EXCEPT ![periodic_cycle] = 0]
    /\ periodic_cycle' = 0
    /\ stop_call' = [returned |-> TRUE,
                     in_flight |-> {c \in Cycles : InFlight(c)}
                                      \ {periodic_cycle}]
    /\ UNCHANGED << last_analysis, analysis_count, mood_history, notified,
                    bufferVars, notCycleVars >>

CycleNext ==
    \/ AddTranscript \/ TriggeredCycle \/ PeriodicCycle
    \/ SentimentDone \/ GatherDone \/ CallbackDone \/ CycleStop

CycleSpec == Init /\ [][CycleNext]_vars

(***************************************************************************)
(* _build_analysis_result on its own (ResultSpec): one call, for every     *)
(* mood_score in 1..10 and every mood_history of up to MaxHistory scores.  *)
(***************************************************************************)

\* the scores in mood_history when the result is built
HistoryScores == 3..8

\* the contents of mood_history
Histories ==
    UNION {[1..n -> {IntValue(m) : m \in HistoryScores}] : n \in 0..MaxHistory}

\* a call of _build_analysis_result, lines 303-338, with the mood_score of
\* sentiment_result and the mood_history of the coordinator
BuildResultCall ==
    /\ last_analysis = NoAnalysis
    /\ \E history \in Histories :
          \E m \in 1..10 :
              /\ mood_history' = history
              /\ last_analysis' = BuildAnalysisResult(IntValue(m), history, 0)
    /\ UNCHANGED << cyc_pc, cyc_read, cyc_mood, analysis_count, notified,
                    periodic_cycle, stop_call, bufferVars, notCycleVars >>

ResultSpec == Init /\ [][BuildResultCall]_vars

(***************************************************************************)
(* MobileAudioSession (src/mobile_audio_handler.py:19-301) with the        *)
(* websocket handler that drives it (src/api.py:533-592), after            *)
(* create_session has returned (MobileSpec). Three tasks run: the handler, *)
(* _receive_from_gemini and _context_injection_loop. A step is the code    *)
(* between two suspensions; a send begins in the step that calls it.       *)
(***************************************************************************)

\* what a step of the mobile session leaves alone
notMobileVars == << sessionVars, coordVars, bufferVars, bufTaskVars,
                    periodicVars, agentVars, cycleVars >>

\* the tasks that call end_session, and the reasons they give
EndCallers == {"handler", "receive"}
EndReasons == {"ai_initiated", "client_requested", "connection_closed"}

\* end_session without its test of line 271: C39 must fail with it.
NeverEnded == FALSE

\* line 271: if self.should_end: return
AlreadyEnded == mob_should_end

\* the pc of a task after Task.cancel(): CancelledError is thrown at its
\* await, and neither `except Exception` (line 161) nor line 256 stops it
Cancelled(pc) == IF pc \in {"done", "cancelled"} THEN pc ELSE "cancelled"

\* end_session(reason) called by task `caller`, lines 269-284: it returns at
\* line 272, or sets the flags and sends "session_ended" to the client
EndSessionEnter(caller, reason) ==
    /\ end_calls' = end_calls \cup {reason}
    /\ IF AlreadyEnded
       THEN /\ es_pc' = [es_pc EXCEPT ![caller] = "return"]
            /\ UNCHANGED << mob_should_end, mob_is_active, client_ended >>
       ELSE /\ mob_should_end' = TRUE
            /\ mob_is_active' = FALSE
            /\ client_ended' = Append(client_ended, reason)
            /\ es_pc' = [es_pc EXCEPT ![caller] = "notify"]

\* lines 286-294: send_to_client has returned; both tasks are cancelled and
\* live_coordinator.stop() is called. A task that cancels itself goes on:
\* the CancelledError reaches it at the await of stop(), whose except clause
\* (live_transcript_handler.py:116) passes over it.
EndSessionCancel ==
    /\ \E caller \in EndCallers :
          /\ es_pc[caller] = "notify"
          /\ es_pc' = [c \in EndCallers |->
                          IF c = caller THEN "stop"
                          ELSE IF c = "receive" THEN "none" ELSE es_pc[c]]
          /\ recv_pc' = IF caller = "receive" THEN recv_pc
                        ELSE Cancelled(recv_pc)
    /\ ctx_pc' = Cancelled(ctx_pc)
    /\ coordinator_stops' = coordinator_stops + 1
    /\ UNCHANGED << mob_is_active, mob_should_end, mob_end_requested,
                    handler_pc, client_ended, end_calls, audio_sent,
                    audio_dropped, messages_left, responses_left,
                    gemini_session, notMobileVars >>

\* lines 296-301: stop() has returned and the Gemini session is closed
EndSessionClose ==
    /\ \E caller \in EndCallers :
          /\ es_pc[caller] = "stop"
          /\ es_pc' = [es_pc EXCEPT ![caller] = "return"]
    /\ gemini_session' = "closed"
    /\ UNCHANGED << mob_is_active, mob_should_end, mob_end_requested,
                    handler_pc, recv_pc, ctx_pc, client_ended, end_calls,
                    coordinator_stops, audio_sent, audio_dropped,
                    messages_left, responses_left, notMobileVars >>

\* api.py:534: while audio_session.is_active, then the wait for a message
HandlerLoopTop ==
    /\ handler_pc = "loop"
    /\ handler_pc' = IF mob_is_active THEN "receive" ELSE "finally"
    /\ UNCHANGED << mob_is_active, mob_should_end, mob_end_requested,
                    recv_pc, ctx_pc, es_pc, client_ended, end_calls,
                    coordinator_stops, audio_sent, audio_dropped,
                    messages_left, responses_left, gemini_session,
                    notMobileVars >>

\* `if not self.is_active` alone at line 115: C40 must fail with it.
ActiveOnly == mob_is_active

\* line 115, negated: the chunk is sent on
ForwardsChunk == mob_is_active /\ ~mob_end_requested

\* api.py:546-549 and process_audio_from_client, lines 113-125: an audio
\* message; the chunk is dropped at line 116 or send_realtime_input is
\* called
HandlerAudio ==
    /\ handler_pc = "receive"
    /\ messages_left > 0
    /\ messages_left' = messages_left - 1
    /\ IF ForwardsChunk
       THEN /\ audio_sent' = audio_sent + 1
            /\ handler_pc' = "sending"
            /\ UNCHANGED audio_dropped
       ELSE /\ audio_dropped' = audio_dropped + 1
            /\ handler_pc' = "loop"
            /\ UNCHANGED audio_sent
    /\ UNCHANGED << mob_is_active, mob_should_end, mob_end_requested,
                    recv_pc, ctx_pc, es_pc, client_ended, end_calls,
                    coordinator_stops, responses_left, gemini_session,
                    notMobileVars >>

\* lines 120-131: send_realtime_input returns, or raises and the error
\* message has been sent to the client
HandlerAudioSent ==
    /\ handler_pc = "sending"
    /\ handler_pc' = "loop"
    /\ UNCHANGED << mob_is_active, mob_should_end, mob_end_requested,
                    recv_pc, ctx_pc, es_pc, client_ended, end_calls,
                    coordinator_stops, audio_sent, audio_dropped,
                    messages_left, responses_left, gemini_session,
                    notMobileVars >>

\* api.py:551-554: an end_session message
HandlerEndMessage ==
    /\ handler_pc = "receive"
    /\ messages_left > 0
    /\ messages_left' = messages_left - 1
    /\ handler_pc' = "end_client"
    /\ EndSessionEnter("handler", "client_requested")
    /\ UNCHANGED << mob_end_requested, recv_pc, ctx_pc, coordinator_stops,
                    audio_sent, audio_dropped, responses_left,
                    gemini_session, notMobileVars >>

\* api.py:556-562 and 568-569: a user_transcript message (add_transcript),
\* or no message within the timeout
HandlerContinue ==
    /\ handler_pc = "receive"
    /\ \E transcript \in BOOLEAN :
          IF transcript
          THEN messages_left > 0 /\ messages_left' = messages_left - 1
          ELSE UNCHANGED messages_left
    /\ handler_pc' = "loop"
    /\ UNCHANGED << mob_is_active, mob_should_end, mob_end_requested,
                    recv_pc, ctx_pc, es_pc, client_ended, end_calls,
                    coordinator_stops, audio_sent, audio_dropped,
                    responses_left, gemini_session, notMobileVars >>

\* api.py:564-566 and 570-572: the client disconnected, or receiving raised
HandlerBreak ==
    /\ handler_pc = "receive"
    /\ handler_pc' = "finally"
    /\ UNCHANGED << mob_is_active, mob_should_end, mob_end_requested,
                    recv_pc, ctx_pc, es_pc, client_ended, end_calls,
                    coordinator_stops, audio_sent, audio_dropped,
                    messages_left, responses_left, gemini_session,
                    notMobileVars >>

\* api.py:587-592: finally, audio_session.end_session("connection_closed")
HandlerFinally ==
    /\ handler_pc = "finally"
    /\ handler_pc' = "cleanup"
    /\ EndSessionEnter("handler", "connection_closed")
    /\ UNCHANGED << mob_end_requested, recv_pc, ctx_pc, coordinator_stops,
                    audio_sent, audio_dropped, messages_left,
                    responses_left, gemini_session, notMobileVars >>

\* end_session returns to the handler: api.py:554 breaks out of the loop,
\* and the cleanup goes on after line 592
HandlerEndReturns ==
    /\ es_pc["handler"] = "return"
    /\ es_pc' = [es_pc EXCEPT !["handler"] = "none"]
    /\ handler_pc' = IF handler_pc = "end_client" THEN "finally" ELSE "done"
    /\ UNCHANGED << mob_is_active, mob_should_end, mob_end_requested,
                    recv_pc, ctx_pc, client_ended, end_calls,
                    coordinator_stops, audio_sent, audio_dropped,
                    messages_left, responses_left, gemini_session,
                    notMobileVars >>

\* lines 136-142 and 168-188: a response with a tool call naming
\* end_session_tool; the loop ends at line 138 if should_end is set
ReceiveToolCall ==
    /\ recv_pc = "recv"
    /\ gemini_session = "open"
    /\ responses_left > 0
    /\ responses_left' = responses_left - 1
    /\ IF mob_should_end
       THEN recv_pc' = "done" /\ UNCHANGED mob_end_requested
       ELSE recv_pc' = "tool_response" /\ mob_end_requested' = TRUE
    /\ UNCHANGED << mob_is_active, mob_should_end, handler_pc, ctx_pc,
                    es_pc, client_ended, end_calls, coordinator_stops,
                    audio_sent, audio_dropped, messages_left,
                    gemini_session, notMobileVars >>

\* lines 180-194: send_tool_response and the "session_ending" message have
\* returned; the response has no server_content
ReceiveToolDone ==
    /\ recv_pc = "tool_response"
    /\ recv_pc' = "recv"
    /\ UNCHANGED << mob_is_active, mob_should_end, mob_end_requested,
                    handler_pc, ctx_pc, es_pc, client_ended, end_calls,
                    coordinator_stops, audio_sent, audio_dropped,
                    messages_left, responses_left, gemini_session,
                    notMobileVars >>

\* lines 136-153: a response with server_content, a model turn or a
\* turn_complete, which is passed on to the client
ReceiveContent ==
    /\ recv_pc = "recv"
    /\ gemini_session = "open"
    /\ responses_left > 0
    /\ responses_left' = responses_left - 1
    /\ \E turn_complete \in BOOLEAN :
          recv_pc' = IF mob_should_end THEN "done"
                     ELSE IF turn_complete THEN "turn_complete"
                     ELSE "model_turn"
    /\ UNCHANGED << mob_is_active, mob_should_end, mob_end_requested,
                    handler_pc, ctx_pc, es_pc, client_ended, end_calls,
                    coordinator_stops, audio_sent, audio_dropped,
                    messages_left, gemini_session, notMobileVars >>

\* lines 148 and 151-158: the sends to the client have returned; after a
\* turn_complete with end_session_requested set the task sleeps 1.0 s
ReceiveContentDone ==
    /\ recv_pc \in {"model_turn", "turn_complete"}
    /\ recv_pc' = IF recv_pc = "turn_complete" /\ mob_end_requested
                  THEN "sleep" ELSE "recv"
    /\ UNCHANGED << mob_is_active, mob_should_end, mob_end_requested,
                    handler_pc, ctx_pc, es_pc, client_ended, end_calls,
                    coordinator_stops, audio_sent, audio_dropped,
                    messages_left, responses_left, gemini_session,
                    notMobileVars >>

\* line 159: await self.end_session("ai_initiated")
ReceiveEnds ==
    /\ recv_pc = "sleep"
    /\ recv_pc' = "ending"
    /\ EndSessionEnter("receive", "ai_initiated")
    /\ UNCHANGED << mob_end_requested, handler_pc, ctx_pc,
                    coordinator_stops, audio_sent, audio_dropped,
                    messages_left, responses_left, gemini_session,
                    notMobileVars >>

\* end_session returns to _receive_from_gemini, which goes on with the loop
\* of line 136
ReceiveEndReturns ==
    /\ recv_pc = "ending"
    /\ es_pc["receive"] = "return"
    /\ es_pc' = [es_pc EXCEPT !["receive"] = "none"]
    /\ recv_pc' = "recv"
    /\ UNCHANGED << mob_is_active, mob_should_end, mob_end_requested,
                    handler_pc, ctx_pc, client_ended, end_calls,
                    coordinator_stops, audio_sent, audio_dropped,
                    messages_left, responses_left, gemini_session,
                    notMobileVars >>

\* lines 136 and 161-166: receive() ends or raises (the session is closed,
\* or the connection failed); the error message has been sent to the client
ReceiveStops ==
    /\ recv_pc = "recv"
    /\ recv_pc' = "done"
    /\ UNCHANGED << mob_is_active, mob_should_end, mob_end_requested,
                    handler_pc, ctx_pc, es_pc, client_ended, end_calls,
                    coordinator_stops, audio_sent, audio_dropped,
                    messages_left, responses_left, gemini_session,
                    notMobileVars >>

\* _context_injection_loop, lines 233-255: the sleep of 45 s is over, the
\* context is sent to the model unless end_session_requested (no audio
\* chunk), and the loop goes on or ends at line 233
ContextLoop ==
    /\ ctx_pc = "sleep"
    /\ ctx_pc' = IF mob_should_end THEN "done" ELSE "sleep"
    /\ UNCHANGED << mob_is_active, mob_should_end, mob_end_requested,
                    handler_pc, recv_pc, es_pc, client_ended, end_calls,
                    coordinator_stops, audio_sent, audio_dropped,
                    messages_left, responses_left, gemini_session,
                    notMobileVars >>

MobileNext ==
    \/ EndSessionCancel \/ EndSessionClose
    \/ HandlerLoopTop \/ HandlerAudio \/ HandlerAudioSent
    \/ HandlerEndMessage \/ HandlerContinue \/ HandlerBreak
    \/ HandlerFinally \/ HandlerEndReturns
    \/ ReceiveToolCall \/ ReceiveToolDone \/ ReceiveContent
    \/ ReceiveContentDone \/ ReceiveEnds \/ ReceiveEndReturns
    \/ ReceiveStops \/ ContextLoop

MobileSpec == Init /\ [][MobileNext]_vars

(***************************************************************************)
(* Properties                                                              *)
(***************************************************************************)

InCallbacks(reason) == \E i \in 1..Len(callbacks) : callbacks[i] = reason

\* The session is ACTIVE: the coroutine is in the monitor loop (lines 387-398)
Active == main_pc \in {"monitor", "waiting"}

\* KeyboardInterrupt took the coroutine out of _run()
Interrupted == main_pc \in {"ki_handler", "ki_cb"} \/ InCallbacks("user_interrupted")

\* The step in which audio_input_loop passes a chunk to
\* session.send_realtime_input (lines 138-143)
Forwards ==
    input_pc = "check" /\ input_pc' = "loop" /\ last_chunk' = "forwarded"

\* C1: in one run of start_voice_session_with_live_agents the callback
\* on_session_end is invoked at most once, whatever the interleaving of the
\* termination triggers.
C1_CallbackAtMostOnce == Len(callbacks) <= 1

\* C2: when start_voice_session_with_live_agents has returned, the callback
\* has been invoked at least once, and after a task exception that no
\* other notification preceded its reason is 'manual_completion' (or
\* 'user_interrupted' after a KeyboardInterrupt).
C2_NotifiedOnReturn ==
    main_pc = "returned" =>
        /\ callbacks # << >>
        /\ (\E pc \in {input_pc, output_pc, context_pc} : TaskException(pc)) =>
              (InCallbacks("manual_completion") \/ InCallbacks("user_interrupted"))

\* C3 (echo gate): no step of audio_input_loop forwards a microphone chunk
\* to the channel while is_ai_speaking is true.
C3_EchoGate == [][Forwards => ~is_ai_speaking]_vars

\* C3 witness: the input loop had a chunk of data while the model was
\* speaking, with no end request pending, and kept it from the channel.
C3_Witness ==
    /\ last_chunk = "muted_echo"
    /\ input_pc = "loop"
    /\ is_ai_speaking
    /\ ~end_session_requested

\* C4: once end_session_requested is set, no step of audio_input_loop
\* forwards a microphone chunk, also when is_ai_speaking is false again.
C4_NoForwardAfterEndRequest == [][Forwards => ~end_session_requested]_vars

\* C4 witness: after the end request, with is_ai_speaking cleared by the
\* turn-complete, the input loop had a chunk of data and kept it back.
C4_Witness ==
    /\ last_chunk = "muted_end"
    /\ input_pc = "loop"
    /\ end_session_requested
    /\ ~is_ai_speaking

\* C5: once the end-of-session tool invocation has been detected in an
\* ACTIVE session, the session eventually ends by the 'ai_initiated' path
\* (should_end_session, the callback, the output loop over), unless another
\* termination trigger (channel closed, the output loop ended by an error,
\* KeyboardInterrupt) comes first.
C5_EndRequestEndsSession ==
    (end_session_requested /\ Active) ~>
        \/ /\ should_end_session
           /\ InCallbacks("ai_initiated")
           /\ output_pc \in Finished
        \/ channel # "open"
        \/ output_pc \in {"dead", "failed"}
        \/ Interrupted

\* C6: every closure of the channel during an ACTIVE session, the output
\* loop still running, ends the session: should_end_session is set, the callback has been invoked (with
\* 'connection_closed', or 'ai_initiated' when that path was already under
\* way), the output loop is over and the coroutine has left the monitor
\* loop, unless a KeyboardInterrupt ends it first.
C6_ClosureEndsSession ==
    (channel \in {"closed_error", "closed_ok"} /\ Active
        /\ output_pc \notin Finished) ~>
        \/ /\ should_end_session
           /\ InCallbacks("connection_closed") \/ InCallbacks("ai_initiated")
           /\ output_pc \in Finished
           /\ ~Active
        \/ Interrupted

\* C7: a loop that an exception has ended (swallowed by its except clause,
\* or leaving the task) makes the session end: should_end_session is set
\* and the coroutine leaves the monitor loop for the teardown.
C7_LoopExceptionEndsSession ==
    ((\E pc \in {input_pc, output_pc, context_pc} : pc \in {"dead", "failed"})
        /\ Active) ~> (~Active /\ (should_end_session \/ Interrupted))

\* C8: past the end of the teardown (line 433), when neither the
\* 'ai_initiated' nor the 'connection_closed' path has invoked the
\* callback, it has been invoked exactly once, with 'manual_completion'.
C8_ManualCompletion ==
    (main_pc = "exit_session"
        /\ ~InCallbacks("ai_initiated") /\ ~InCallbacks("connection_closed"))
    => callbacks = << "manual_completion" >>

\* C9: when start_voice_session_with_live_agents has returned or raised,
\* AudioHandler.close() has run: no stream is left open and PyAudio is
\* terminated.
C9_ClosedOnEveryExit ==
    main_pc \in Exited =>
        /\ pa_terminated
        /\ input_stream # "open"
        /\ output_stream # "open"

\* C9 witness: the function has left with an exception of _run() and the
\* input stream, which was open, is closed.
C9_Witness ==
    /\ main_pc = "raised"
    /\ input_stream = "closed"
    /\ pa_terminated

\* C10: when AudioHandler.close() has run, the three tasks have finished
\* and no worker thread is in a device read or write; no device read or
\* write ends on a closed stream.
C10_NoDeviceIoAfterClose ==
    /\ pa_terminated =>
          /\ \A pc \in {input_pc, output_pc, context_pc} :
                pc \in Finished \cup {"idle"}
          /\ in_thread = "idle"
          /\ out_thread = "idle"
    /\ ~late_io

\* The step in which the teardown cancels the input task or the context
\* task (lines 418-420), and the one in which the output task is cancelled
CancelsOther ==
    \/ input_pc # "cancelling" /\ input_pc' = "cancelling"
    \/ context_pc # "cancelling" /\ context_pc' = "cancelling"

CancelsOutput ==
    /\ output_pc \notin {"cancelling", "cancelling_cb"}
    /\ output_pc' \in {"cancelling", "cancelling_cb"}

\* C11: the teardown cancels the input task and the context task only when
\* the output task is done (it has finished, or the 5 s of wait_for have
\* expired and ended it), so no 'ai_initiated' or 'connection_closed'
\* callback is in progress then; and the output task is cancelled by
\* nothing but that wait_for.
C11_OutputAwaitedFirst ==
    [][/\ CancelsOther =>
             output_pc \in Finished /\ output_pc' \in Finished
       /\ CancelsOutput => main_pc = "wait_output"]_vars

\* C11 witness: the output loop has ended after its 'ai_initiated'
\* callback, and the teardown has now cancelled the input task.
C11_Witness ==
    /\ main_pc = "await_input"
    /\ input_pc = "cancelling"
    /\ output_pc = "done"
    /\ InCallbacks("ai_initiated")

\* C12: context_injection_loop never passes the same context to
\* session.send_client_content twice in a row.
C12_NoRepeatedContext ==
    \A i \in 1..Len(injected) :
        i < Len(injected) => injected[i] # injected[i + 1]

\* C12 witness: the loop has sent the context of the analysis, and is at
\* its injection step again (the sleep over, the channel open, no end
\* request) with last_analysis unchanged.
C12_Witness ==
    /\ injected = << coord_context >>
    /\ context_pc = "sleep"
    /\ last_context_update = coord_context
    /\ channel = "open"
    /\ ~end_session_requested

\* The step in which context_injection_loop sends a context turn into the
\* open channel
ContextSends == Len(injected') > Len(injected) /\ channel = "open"

\* C13: context_injection_loop sends a context turn only when no end
\* request is pending and should_end_session is false, and the context it
\* sends is not empty.
C13_InjectOnlyWhileRunning ==
    [][ContextSends =>
          /\ ~end_session_requested
          /\ ~should_end_session
          /\ coord_context # 0]_vars

Min(a, b) == IF a < b THEN a ELSE b

\* C14: after any sequence of add_segment calls the buffer holds at most
\* max_segments segments: the most recently added ones, in the order they
\* were added (a full buffer has lost exactly its oldest segments).
C14_SlidingWindow ==
    /\ Len(segments) = Min(buf_adds, MaxSegments)
    /\ \A i \in 1..Len(segments) :
          segments[i].text = Words[buf_adds - Len(segments) + i]

\* C14 witness: one segment more than max_segments has been added; the
\* first one is gone and the second one is the oldest in the buffer.
C14_Witness ==
    /\ buf_adds = MaxSegments + 1
    /\ Len(segments) = MaxSegments
    /\ segments[1].text = Words[2]

\* The step in which get_recent_user_text returns to task t
RecentReturns(t) ==
    buf_pc[t] = "get_recent_user_text" /\ buf_pc'[t] = "idle"

\* C15, as claimed: get_recent_user_text(n) returns the space-joined text
\* of the last n segments whose speaker is 'user' (of the last n user
\* segments), n being the analysis window when it is not given.
C15_LastNUserSegments ==
    [][\A t \in Readers :
          RecentReturns(t) =>
             buf_result'[t].value =
                Join(" ", TextsOf(LastN(SelectSeq(segments, IsUser),
                                        WindowOf(buf_arg[t]))))]_vars

\* The texts of those segments, from the i-th on, that are among the last n
\* of segs and have speaker 'user'
RECURSIVE UserTextsFrom(_, _, _)
UserTextsFrom(segs, n, i) ==
    IF i > Len(segs) THEN << >>
    ELSE (IF i + n > Len(segs) /\ segs[i].speaker = "user"
          THEN << << segs[i].text >> >> ELSE << >>)
         \o UserTextsFrom(segs, n, i + 1)

\* C15, amended: get_recent_user_text(n) returns the space-joined text of
\* those of the last n segments of the buffer, of either speaker, whose
\* speaker is 'user', in order; n is the analysis window when num_segments
\* is not given or 0.
C15_UserSegmentsOfLastN ==
    [][\A t \in Readers :
          RecentReturns(t) =>
             buf_result'[t].value =
                Join(" ", UserTextsFrom(segments, WindowOf(buf_arg[t]), 1))]_vars

\* C15 witness: with an agent segment between two user segments,
\* get_recent_user_text(2) has returned the text of the last one only.
C15_Witness ==
    /\ segments = << [speaker |-> "user", text |-> "one"],
                     [speaker |-> "agent", text |-> "two"],
                     [speaker |-> "user", text |-> "three"] >>
    /\ \E t \in Readers :
          buf_result[t] = [op |-> "get_recent_user_text", arg |-> 2,
                           value |-> << "three" >>]

\* The tasks inside an operation of the buffer
Inside == {t \in BufTasks : buf_pc[t] # "idle"}

\* C16: at most one task is inside add_segment, get_recent_user_text or
\* get_full_conversation at a time, and what a read has returned is the
\* result for a content the buffer had after a complete append (or for the
\* empty buffer).
C16_MutualExclusion ==
    /\ Cardinality(Inside) <= 1
    /\ \A t \in Readers :
          /\ buf_result[t].op = "get_recent_user_text" =>
                \E h \in buf_history :
                   buf_result[t].value = GetRecentUserText(h, buf_result[t].arg)
          /\ buf_result[t].op = "get_full_conversation" =>
                \E h \in buf_history :
                   buf_result[t].value = GetFullConversation(h)

\* C16 witness: a reader has returned the conversation of a buffer that was
\* not empty, an append has completed since, and the writer is inside
\* add_segment again, the lock held.
C16_Witness ==
    /\ buf_lock
    /\ buf_pc["writer"] = "add_segment"
    /\ \E t \in Readers :
          /\ buf_result[t].op = "get_full_conversation"
          /\ buf_result[t].value # << >>
          /\ buf_result[t].value # GetFullConversation(segments)

\* C17: a coordinator has at most one periodic-analysis task that is not
\* done, whatever calls of start() and stop() it gets: start() on a running
\* coordinator launches no second task.
C17_StartIdempotent ==
    Cardinality({t \in PeriodicTasks : p_pc[t] \in Live}) <= 1

\* The steps in which stop() is called, in which it returns from its await,
\* and in which a periodic loop starts an analysis cycle
StopBegins ==
    stop_awaits = 0 /\ (stop_awaits' # 0 \/ (coord_running /\ ~coord_running'))
StopReturns == stop_awaits # 0 /\ stop_awaits' = 0
StartsCycle == \E t \in PeriodicTasks : p_pc[t] = "sleep" /\ p_pc'[t] = "analyze"

\* C18: stop() sets _running false and cancels the periodic task, it
\* returns from its await only when that task is done, and no periodic
\* loop starts an analysis cycle while _running is false, as it is from
\* stop() until the next start().
C18_StopEndsPeriodicLoop ==
    [][/\ StopBegins =>
             /\ ~coord_running'
             /\ analysis_task # 0 => p_pc'[analysis_task] \notin {"loop", "sleep", "analyze"}
       /\ StopReturns => p_pc[stop_awaits] = "done"
       /\ StartsCycle => coord_running]_vars

\* C18 witness: the periodic task had run an analysis; stop() has cancelled
\* it and has returned, the task being done.
C18_Witness ==
    /\ stop_awaits = 0
    /\ ~coord_running
    /\ analysis_task = 1
    /\ p_pc[1] = "done"
    /\ coord_context = 1

\* The step in which audio_output_loop, the audio of a model turn played,
\* goes on to the next response (lines 169-188), and the one in which it
\* receives the turn-complete of the model's answer (line 191)
AgentAudioPlayed == output_pc = "write" /\ output_pc' = "recv"
TurnCompletes == output_pc = "recv" /\ output_pc' = "echo_delay"

\* C19: the speech of a model turn is appended to the TranscriptBuffer as a
\* segment of speaker 'agent' when its audio has been played, and by the
\* time the model's answer completes, the user speech forwarded before it
\* is in the buffer as a segment of speaker 'user'.
C19_UtterancesInTranscript ==
    [][/\ AgentAudioPlayed =>
             /\ buf_adds' = buf_adds + 1
             /\ segments'[Len(segments')].speaker = "agent"
       /\ (TurnCompletes /\ last_chunk = "forwarded") =>
             \E i \in 1..Len(segments') : segments'[i].speaker = "user"]_vars

\* The step that launches the three loops (lines 377-381)
LaunchesLoops == input_pc = "idle" /\ input_pc' = "loop"

\* C20: in every session the loops are launched only after the user
\* context has been sent into the channel as a completed turn, also when
\* initial_history is absent or holds no context message.
C20_InitialContextFirst == [][LaunchesLoops => main_pc = "launch"]_vars

\* C21: the score HealthAgent returns equals
\* round(clamp(steps/10000*50, 0, 50) + clamp(sleep/8*50, 0, 50)) and lies in
\* 0..100 for every steps and sleep, negative ones and ones above 10000
\* steps or 8 hours included; 10000 steps and 8 hours give 100, 0 and 0 give 0.
C21_ScoreClamped ==
    health_call.called =>
        LET clamp(x) == IF x < 0 THEN 0 ELSE IF x > 50 * 200 THEN 50 * 200 ELSE x
            claimed == PyRound(clamp(health_call.steps)
                                  + clamp(125 * health_call.sleep), 200)
        IN  /\ health_call.score = claimed
            /\ health_call.score \in 0..100
            /\ health_call.steps = 10000 /\ health_call.sleep = 80
                  => health_call.score = 100
            /\ health_call.steps = 0 /\ health_call.sleep = 0
                  => health_call.score = 0

\* C22: HealthAgent returns exactly one of its four suggestions: the one for
\* low sleep and low activity iff sleep < 7.0 and steps < 5000, the one for
\* low sleep iff sleep < 7.0 and steps >= 5000, the one for low steps iff
\* sleep >= 7.0 and steps < 5000, the one for good metrics otherwise; 7.0
\* hours and 5000 steps are not low.
C22_SuggestionTable ==
    health_call.called =>
        LET low_sleep == health_call.sleep < 70
            low_steps == health_call.steps < 5000
            said == health_call.suggestion
        IN  /\ said \in {"You were low on both sleep and activity.",
                         "Your sleep was low.", "Your steps are low.",
                         "Your health metrics look good!"}
            /\ said = "You were low on both sleep and activity."
                  <=> low_sleep /\ low_steps
            /\ said = "Your sleep was low." <=> low_sleep /\ ~low_steps
            /\ said = "Your steps are low." <=> ~low_sleep /\ low_steps
            /\ said = "Your health metrics look good!"
                  <=> ~low_sleep /\ ~low_steps

\* HealthAgent was called with 7.0 hours of sleep and 5000 steps, the
\* thresholds themselves, and answered that the metrics look good
C22_Witness ==
    /\ health_call.called
    /\ health_call.sleep = 70
    /\ health_call.steps = 5000
    /\ health_call.suggestion = "Your health metrics look good!"

\* C24: SentimentAgent never raises and always returns a result that has a
\* mood_score and a mood_analysis; when the model call failed, was skipped
\* for want of a credential, or returned text that is no JSON, the
\* mood_score is 5.
C24_SentimentNeverRaises ==
    sentiment_call.called =>
        LET result == sentiment_call.result
            reply == sentiment_call.reply
        IN  /\ ~result.raised
            /\ result.mood_score # Absent
            /\ result.mood_analysis # "none"
            /\ \/ ~sentiment_call.client
               \/ reply.kind = "error"
               \/ reply.json \in {"invalid", "invalid_skipped"}
               => result.mood_score = IntValue(5)

\* SentimentAgent was called with a credential, the model call raised, and
\* the result has the score 5
C24_Witness ==
    /\ sentiment_call.called
    /\ sentiment_call.client
    /\ sentiment_call.reply.kind = "error"
    /\ sentiment_call.result.mood_score = IntValue(5)
    /\ sentiment_call.result.mood_analysis = "mood appears moderate"

\* The step in which generate_content returns to SocialAgent a response
\* that has text parts, and one that has text parts and no function call
ReceivesText == social_pc = "call" /\ response'.text
ReceivesPlainText == ReceivesText /\ response'.function_call = "none"

\* C23 as stated: SocialAgent makes at most 5 model calls; against a model
\* that requests a tool on every call it stops after the 5th call with the
\* generic fallback suggestion, and it returns the text of the first
\* response that carries text, without a further model call.
C23_ReturnsAtFirstText ==
    /\ [](model_calls <= 5)
    /\ [][/\ ReceivesText
             => /\ social_pc' = "returned"
                /\ social_out' = ModelSuggestion
                /\ model_calls' = model_calls
          /\ social_pc = "tool" /\ social_pc' # "tool" /\ model_calls = 5
             => /\ social_pc' = "returned"
                /\ model_calls' = 5
                /\ social_out' \in {GenericSuggestion, ResourcesSuggestion}]_vars

\* C23: SocialAgent makes at most 5 model calls; when the 5th response
\* requests a tool too it makes no 6th call and returns the generic fallback
\* suggestion (that of the except clause if the tool raised); it returns the
\* text of the first response that has text parts and no function call,
\* without a further model call.
C23_ReturnsAtFirstPlainText ==
    /\ [](model_calls <= 5)
    /\ [][/\ ReceivesPlainText
             => /\ social_pc' = "returned"
                /\ social_out' = ModelSuggestion
                /\ model_calls' = model_calls
          /\ social_pc = "tool" /\ social_pc' # "tool" /\ model_calls = 5
             => /\ social_pc' = "returned"
                /\ model_calls' = 5
                /\ social_out' \in {GenericSuggestion, ResourcesSuggestion}]_vars

\* SocialAgent has returned the generic fallback after five model calls, the
\* last of which requested a tool as well
C23_Witness ==
    /\ social_pc = "returned"
    /\ model_calls = 5
    /\ iteration = 5
    /\ response.function_call = "get_user_interests"
    /\ social_out = GenericSuggestion

\* A step that changes one of the three boolean flags of SessionState
FlagWritten ==
    \/ is_ai_speaking' # is_ai_speaking
    \/ end_session_requested' # end_session_requested
    \/ should_end_session' # should_end_session

\* C26: each of is_ai_speaking, end_session_requested and should_end_session
\* is written by one task of the session only. audio_output_loop writes all
\* three (lines 163, 179-181, 193, 202, 219, 226), so no step of the
\* coroutine, of audio_input_loop or of context_injection_loop changes one.
C26_SingleWriter ==
    [][FlagWritten =>
          /\ main_pc' = main_pc
          /\ input_pc' = input_pc
          /\ context_pc' = context_pc]_vars

\* The step in which on_session_end is called with "ai_initiated"
AiNotifies ==
    /\ Len(callbacks') = Len(callbacks) + 1
    /\ callbacks'[Len(callbacks')] = "ai_initiated"

\* C27: in audio_output_loop the step after the echo delay of a
\* turn-complete event clears is_ai_speaking, and goes on to the final wait
\* when end_session_requested is set; the callback is called with
\* "ai_initiated" only after that wait, with is_ai_speaking cleared, the
\* model's turn complete and should_end_session set, and the loop returns
\* only after the callback.
C27_TurnCompleteOrder ==
    [][/\ output_pc = "echo_delay"
          /\ output_pc' \notin {"echo_delay", "cancelling"}
          => /\ ~is_ai_speaking'
             /\ end_session_requested => output_pc' = "final_wait"
       /\ AiNotifies
          => /\ output_pc = "final_wait"
             /\ output_pc' = "callback_ai"
             /\ end_session_requested
             /\ ~is_ai_speaking
             /\ ~turn_open
             /\ should_end_session'
       /\ output_pc = "callback_ai" /\ output_pc' = "done"
          => /\ InCallbacks("ai_initiated")
             /\ should_end_session]_vars

\* audio_output_loop has returned after the callback with "ai_initiated"
C27_Witness ==
    /\ output_pc = "done"
    /\ callbacks = << "ai_initiated" >>
    /\ end_session_requested
    /\ should_end_session
    /\ ~is_ai_speaking

\* C28: when is_ai_speaking is set in an active session that has no end
\* request pending, it becomes false again (or the session ends, or an end
\* request arrives): a turn of the model does not mute the microphone for
\* the rest of the session.
C28_MicrophoneReopens ==
    (is_ai_speaking /\ ~end_session_requested /\ Active)
        ~> (~is_ai_speaking \/ end_session_requested \/ ~Active)

\* C25: every LiveAnalysisResult the coordinator publishes (last_analysis,
\* and the argument of on_analysis_complete) has a mood_score that is an
\* integer in 1..10, whatever the sentiment model returned in its JSON.
C25_MoodScoreInRange ==
    \A analysis \in {last_analysis, notified.last} :
        analysis # NoAnalysis =>
            /\ analysis.mood_score.type = "int"
            /\ analysis.mood_score.val \in 1..10

\* The step in which add_transcript is called, and the one in which
\* asyncio.create_task makes the task of an analysis cycle
AddsTranscript == buf_adds' = buf_adds + 1
CycleCreated == \E c \in Cycles : cyc_pc[c] = "none" /\ cyc_pc'[c] = "created"

\* C29: add_transcript always appends its segment; it starts an analysis
\* cycle if and only if the speaker is "user" and the text has more than 5
\* words; and it returns with that cycle not yet run: no cycle has moved
\* and nothing is published in the step.
C29_TriggerOnLongUserText ==
    [][AddsTranscript =>
          LET segment == segments'[Len(segments')]
          IN  /\ segments' # << >>
              /\ \/ segments' = Append(segments, segment)
                 \/ segments' = Append(Tail(segments), segment)
              /\ CycleCreated
                    <=> /\ segment.speaker = "user"
                        /\ SplitLen(Chars(segment.text)) > 5
              /\ \A c \in Cycles :
                    cyc_pc'[c] # cyc_pc[c] => cyc_pc'[c] = "created"
              /\ UNCHANGED << last_analysis, analysis_count, mood_history,
                              notified >>]_vars

\* add_transcript has returned from a user's text of six words, and the
\* cycle it started has not run yet
C29_Witness ==
    /\ segments # << >>
    /\ segments[Len(segments)] =
          [speaker |-> "user", text |-> "I am so sad and tired"]
    /\ \E c \in Cycles : cyc_pc[c] = "created"
    /\ analysis_count = 0

\* The step in which the cycle c runs up to its first suspension
CycleBegins(c) ==
    cyc_pc[c] \in {"none", "created"} /\ cyc_pc'[c] \notin {"none", "created"}

\* C30: a cycle that finds the recent user text empty, or shorter than 10
\* characters once stripped, ends there: it runs no agent, it leaves
\* last_analysis, analysis_count and mood_history as they are and does not
\* call on_analysis_complete; and it does nothing later on.
C30_SkippedCycleChangesNothing ==
    [][\A c \in Cycles :
          /\ CycleBegins(c)
             /\ (LET chars == Flatten(GetRecentUserText(segments, 0))
                 IN  chars = << >> \/ StripLen(chars) < 10)
             => /\ cyc_pc'[c] = "skipped"
                /\ UNCHANGED << last_analysis, analysis_count, mood_history,
                                notified, cyc_mood, cyc_read >>
          /\ cyc_pc[c] = "skipped" => cyc_pc'[c] = "skipped"]_vars

\* a cycle was skipped while the recent user text has the 9 characters of
\* "I am sad."
C30_Witness ==
    /\ \E c \in Cycles : cyc_pc[c] = "skipped"
    /\ GetRecentUserText(segments, 0) = << "I am sad." >>
    /\ StripLen(Flatten(GetRecentUserText(segments, 0))) = 9
    /\ analysis_count = 0

\* a result has been built
Built == last_analysis # NoAnalysis

\* C32: mood_trend is "stable" when mood_history has fewer than 3 entries;
\* else, with e the 3rd-from-last entry and l the last one, it is
\* "improving" iff l > e + 1, "declining" iff l < e - 1 and "stable" in every
\* other case.
C32_MoodTrend ==
    Built =>
        LET n == Len(mood_history)
            trend == last_analysis.mood_trend
        IN  IF n < 3 THEN trend = "stable"
            ELSE LET e == mood_history[n - 2].val
                     l == mood_history[n].val
                 IN  /\ trend = "improving" <=> l > e + 1
                     /\ trend = "declining" <=> l < e - 1
                     /\ trend = "stable" <=> (l <= e + 1 /\ l >= e - 1)

\* the histories [5,5,7], [7,6,4] and [5,5,5] of the spec, and one of four
\* entries whose first entry would give another trend
C32_Witness ==
    /\ Built
    /\ mood_history = << IntValue(3), IntValue(5), IntValue(6), IntValue(7) >>
    /\ last_analysis.mood_trend = "improving"

\* C33: urgency_level is "high" iff mood_score <= 3 or (mood_score <= 4 and
\* the trend is "declining"); otherwise "medium" iff mood_score <= 5 or the
\* trend is "declining"; otherwise "low": one of the three for every
\* mood_score in 1..10 and every trend.
C33_Urgency ==
    Built =>
        LET m == last_analysis.mood_score.val
            declining == last_analysis.mood_trend = "declining"
            urgency == last_analysis.urgency_level
            high == m <= 3 \/ (m <= 4 /\ declining)
            medium == ~high /\ (m <= 5 \/ declining)
        IN  /\ urgency \in {"high", "medium", "low"}
            /\ urgency = "high" <=> high
            /\ urgency = "medium" <=> medium
            /\ urgency = "low" <=> (~high /\ ~medium)

\* mood 3 with a stable trend is "high"
C33_Witness ==
    /\ Built
    /\ last_analysis.mood_score = IntValue(3)
    /\ last_analysis.mood_trend = "stable"
    /\ last_analysis.urgency_level = "high"

\* the items of a sequence
Items(seq) == {seq[i] : i \in 1..Len(seq)}

\* C34: recommended_topics of every result contains "social connection" and
\* "healthy activities"; "coping strategies", "self-care", "emotional
\* support" come first in the list iff mood_score < 4; "immediate wellness
\* techniques" is present iff urgency is "high", and is then the last of the
\* list.
C34_RecommendedTopics ==
    Built =>
        LET topics == last_analysis.recommended_topics
            immediate == "immediate wellness techniques"
        IN  /\ {"social connection", "healthy activities"} \subseteq Items(topics)
            /\ (Len(topics) >= 3 /\ SubSeq(topics, 1, 3) = CopingTopics)
                  <=> last_analysis.mood_score.val < 4
            /\ immediate \in Items(topics)
                  <=> last_analysis.urgency_level = "high"
            /\ immediate \in Items(topics) => topics[Len(topics)] = immediate

\* the gather of cycle c returns and the cycle builds its result (lines
\* 198-200), and it publishes it (lines 202-228)
BuildsResult(c) == cyc_pc[c] = "gather" /\ cyc_pc'[c] \in {"callback", "failed"}
PublishesResult(c) == cyc_pc[c] = "gather" /\ cyc_pc'[c] = "callback"

\* C31: every analysis cycle that is not skipped replaces last_analysis with
\* its new result, increases analysis_count by exactly 1 and invokes
\* on_analysis_complete once with that result; analysis_count never
\* decreases and equals the number of results published so far, also when
\* cycles overlap.
C31_EveryCyclePublishes ==
    [][/\ analysis_count' >= analysis_count
       /\ analysis_count' = notified'.count
       /\ \A c \in Cycles :
             BuildsResult(c)
                => /\ last_analysis'.mood_score = cyc_mood[c]
                   /\ last_analysis'.read = cyc_read[c]
                   /\ analysis_count' = analysis_count + 1
                   /\ notified' = [count |-> notified.count + 1,
                                    last |-> last_analysis']]_vars

\* C36: results are published in the order in which the cycles read the
\* transcript: a result computed from an older transcript snapshot never
\* replaces last_analysis after a result computed from a newer snapshot has
\* been published.
C36_PublishedInReadOrder ==
    [][\A c \in Cycles :
          PublishesResult(c) => cyc_read[c] >= last_analysis.read]_vars

\* C37: when an analysis cycle builds its result, mood_history has at most
\* 10 entries and its last entry is the mood_score of that same cycle, also
\* when cycles overlap and when the sentiment analysis of the cycle failed.
C37_HistoryEndsWithOwnScore ==
    [][\A c \in Cycles :
          BuildsResult(c)
             => /\ Len(mood_history) \in 1..MoodHistoryLen
                /\ mood_history[Len(mood_history)] = cyc_mood[c]]_vars

\* C38: after LiveAgentCoordinator.stop() has returned, last_analysis and
\* analysis_count no longer change and on_analysis_complete is not invoked
\* again, also when a fire-and-forget analysis cycle started by
\* add_transcript was still in flight at the time of stop(). (Stated for the
\* steps of the cycles that were in flight then.)
C38_NothingAfterStop ==
    [][(/\ stop_call.returned
        /\ \E c \in stop_call.in_flight : cyc_pc'[c] # cyc_pc[c])
          => UNCHANGED << last_analysis, analysis_count, notified >>]_vars

\* C35: should_end_session and end_session_requested are monotone within a
\* session: once either flag is true, no step of a loop or of the teardown
\* sets it back to false.
C35_FlagsMonotone ==
    [][/\ should_end_session => should_end_session'
       /\ end_session_requested => end_session_requested']_vars

\* both flags are set, later responses were received and the session has
\* been torn down
C35_Witness ==
    /\ should_end_session
    /\ end_session_requested
    /\ events_left = 0
    /\ main_pc = "returned"

\* C39: MobileAudioSession.end_session sends the "session_ended" message to
\* the client and stops the coordinator at most once per session, however
\* many times and from whichever tasks it is called.
C39_EndSessionOnce ==
    /\ Len(client_ended) <= 1
    /\ coordinator_stops <= 1

\* end_session was called with each of the three reasons, the first call
\* came from the receive task, and the handler has finished
C39_Witness ==
    /\ end_calls = EndReasons
    /\ client_ended = << "ai_initiated" >>
    /\ coordinator_stops = 1
    /\ handler_pc = "done"

\* the step in which an audio chunk is sent on to the model
ChunkForwarded == audio_sent' = audio_sent + 1

\* C40: process_audio_from_client forwards a client audio chunk to the model
\* channel only while the session is active and no end-of-session request
\* is pending; after end_session has run or the end_session tool call has
\* been handled, every later chunk is dropped without a send (should_end
\* and end_session_requested stay set from then on).
C40_ForwardingGate ==
    [][/\ ChunkForwarded => (mob_is_active /\ ~mob_end_requested)
       /\ (mob_should_end \/ mob_end_requested) => audio_sent' = audio_sent
       /\ mob_should_end => mob_should_end'
       /\ mob_end_requested => mob_end_requested']_vars

\* a chunk was sent on, the tool call was handled while the session was
\* still active, and a later chunk was dropped
C40_Witness ==
    /\ audio_sent > 0
    /\ audio_dropped > 0
    /\ mob_end_requested
    /\ mob_is_active
====
